---- MODULE Spec2Model ----
(***************************************************************************)
(* Transaction processor: idempotent ProcessTransaction calls and the      *)
(* odd-record cancellation job, run against a PostgreSQL store in its      *)
(* default READ COMMITTED isolation.  Money is counted in cents.           *)
(***************************************************************************)
EXTENDS Integers, Sequences, FiniteSets, TLC

\* ------------------------------------------------------------------ bounds
NumCalls == 3
\* Rows of the table the selection of the job is run against.
MaxRows == 23
\* The largest number of win/loss pairs of user 2 in a table of InitStarved.
MaxPairs == 11

\* The concurrent ProcessTransaction calls, and the one cancellation worker
\* that main starts.
Calls == 1..NumCalls
Sweepers == {NumCalls + 1}
\* The workers of two instances of the program that run against one store:
\* the worker of this process and the worker of a second process.
Instances == {NumCalls + 1, NumCalls + 2}

\* --------------------------------------------------------------- constants
StateWin == "win"
StateLost == "lost"
StatusProcessed == "processed"
StatusCancelled == "cancelled"

ErrNone == "ok"
ErrInsufficientBalance == "insufficient balance"
ErrDuplicateTransaction == "duplicate transaction"
ErrInvalidState == "invalid state"
ErrInvalidAmount == "invalid amount"
ErrUserNotFound == "user not found"
ErrTransactionNotFound == "transaction not found"
ErrInvalidSourceType == "invalid source type"
errDuplicateInsertRace == "duplicate transaction insert race"
\* Errors of pgx that wrap none of the errors above.
errBeginTransaction == "failed to begin transaction"
errCommitTransaction == "failed to commit transaction"
\* What ProcessTransaction wraps the error of a failed store call in.
errGetTransaction == "get transaction"
errGetBalance == "get balance"
errGetUserForUpdate == "get user for update"
errInsertTransaction == "insert transaction"
errGetTransactionAfterDuplicate == "get transaction after duplicate"
errGetBalanceAfterDuplicate == "get balance after duplicate"
\* ctx.Err() of a cancelled context, and the error the job wraps a failed
\* selection in.
ErrContextCanceled == "context canceled"
errGetOddTransactions == "get odd transactions"

CancellationLimit == 10

\* The HTTP status codes the handlers write.
StatusOK == 200
StatusCreated == 201
StatusBadRequest == 400
StatusNotFound == 404
StatusConflict == 409
StatusInternalServerError == 500

NoOne == 0
NoRecord == [id |-> 0]

\* ------------------------------------------------------------------ inputs
\* The accounts the store is seeded with (id -> balance in cents, version).
SeedUsers == (1 :> [balance |-> 1000, version |-> 0]) @@
             (2 :> [balance |-> 500, version |-> 0])
\* A user id that no row of users has.
MissingUser == 3

T1000 == <<"1", "0", ".", "0", "0">>
T550 == <<"5", ".", "5">>
TZero == <<"0">>
TNegative == <<"-", "1", "0", ".", "5", "0">>
TGarbage == <<"a", "b", "c">>

Request(k, u, s, a) == [transaction_id |-> k, user_id |-> u, state |-> s, amount |-> a]

ValidRequests == { Request(k, 1, s, T1000) : k \in {"k1", "k2"}, s \in {StateWin, StateLost} }
                     \cup { Request("k1", 2, StateWin, T1000) }
OddRequests == { Request("k1", 1, StateWin, T550),
                 Request("k1", 1, StateWin, TZero),
                 Request("k1", 1, StateWin, TNegative),
                 Request("k1", 1, StateWin, TGarbage),
                 Request("k1", 1, StateWin, <<>>),
                 Request("k1", 1, "draw", T1000),
                 Request("k1", 1, "draw", TZero),
                 Request("k2", MissingUser, StateWin, T1000) }
Requests == ValidRequests \cup OddRequests

RECURSIVE SetToSeq(_)
SetToSeq(S) ==
    IF S = {} THEN <<>>
    ELSE LET x == CHOOSE x \in S : TRUE IN <<x>> \o SetToSeq(S \ {x})
\* The requests in a fixed order.
RequestSeq == SetToSeq(Requests)

\* ------------------------------------------------------- decimal handling
DigitChars == {"0", "1", "2", "3", "4", "5", "6", "7", "8", "9"}

DigitVal(ch) ==
    CASE ch = "0" -> 0 [] ch = "1" -> 1 [] ch = "2" -> 2 [] ch = "3" -> 3
      [] ch = "4" -> 4 [] ch = "5" -> 5 [] ch = "6" -> 6 [] ch = "7" -> 7
      [] ch = "8" -> 8 [] ch = "9" -> 9

RECURSIVE DigitsValue(_)
DigitsValue(ds) ==
    IF ds = <<>> THEN 0
    ELSE DigitsValue(SubSeq(ds, 1, Len(ds) - 1)) * 10 + DigitVal(ds[Len(ds)])

AllDigits(ds) == \A i \in 1..Len(ds) : ds[i] \in DigitChars

\* Position of the first "." of a text, or Len + 1.
DotPos(t) ==
    IF \E i \in 1..Len(t) : t[i] = "."
    THEN CHOOSE i \in 1..Len(t) : t[i] = "." /\ \A j \in 1..(i - 1) : t[j] # "."
    ELSE Len(t) + 1

\* decimal.NewFromString on a text of at most two fractional digits:
\* [ok, value in cents].
NewFromString(text) ==
    LET neg == Len(text) > 0 /\ text[1] = "-"
        signed == Len(text) > 0 /\ text[1] \in {"-", "+"}
        body == IF signed THEN SubSeq(text, 2, Len(text)) ELSE text
        dot == DotPos(body)
        intPart == SubSeq(body, 1, dot - 1)
        fracPart == SubSeq(body, dot + 1, Len(body))
        fracCents == IF Len(fracPart) = 0 THEN 0
                     ELSE IF Len(fracPart) = 1 THEN DigitVal(fracPart[1]) * 10
                     ELSE DigitsValue(fracPart)
        mag == DigitsValue(intPart) * 100 + fracCents
        wellFormed == /\ Len(intPart) + Len(fracPart) > 0
                      /\ Len(fracPart) <= 2
                      /\ AllDigits(intPart)
                      /\ AllDigits(fracPart)
    IN  IF wellFormed THEN [ok |-> TRUE, value |-> IF neg THEN 0 - mag ELSE mag]
        ELSE [ok |-> FALSE, value |-> 0]

\* decimal.StringFixed(2) of an amount of cents.
StringFixed2(c) ==
    LET m == IF c < 0 THEN 0 - c ELSE c
        frac == m % 100
    IN  (IF c < 0 THEN "-" ELSE "") \o ToString(m \div 100) \o "."
        \o (IF frac < 10 THEN "0" ELSE "") \o ToString(frac)

\* model.ParseState
ParseState(s) ==
    IF s = StateWin THEN [ok |-> TRUE, state |-> StateWin]
    ELSE IF s = StateLost THEN [ok |-> TRUE, state |-> StateLost]
    ELSE [ok |-> FALSE, state |-> ""]

\* Mutant of LessThanZero: the negative-balance check never fires.
LessThanZeroNever(d) == FALSE

\* newBalance.LessThan(decimal.Zero)
LessThanZero(d) == d < 0

\* The switch on state in ProcessTransaction: win adds, lost subtracts.
AppliedBalance(balance, state, amount) ==
    IF state = StateWin THEN balance + amount
    ELSE IF state = StateLost THEN balance - amount
    ELSE balance

\* Mutant of ReversedBalance: the cancellation repeats the original effect.
ReversedBalanceSameSign(balance, state, amount) ==
    IF state = StateWin THEN balance + amount
    ELSE IF state = StateLost THEN balance - amount
    ELSE balance

\* The switch on state in ProcessOddRecordCancellation: win subtracts, lost adds.
ReversedBalance(balance, state, amount) ==
    IF state = StateWin THEN balance - amount
    ELSE IF state = StateLost THEN balance + amount
    ELSE balance


\* ------------------------------------------------------------------- state
VARIABLES
    users,          \* committed users rows: id -> [balance, version]
    transactions,   \* committed transactions rows
    nextID,         \* next value of the transactions id sequence
    userLock,       \* holder of the FOR UPDATE lock of each users row
    pc,             \* position of every call and of every cancellation job
    req,            \* the request of every ProcessTransaction call
    tx,             \* per call: locals and uncommitted writes of its pgx.Tx
    resp,           \* per call: what ProcessTransaction returned
    batch,          \* per job: the candidates GetLatestOddProcessedTransactions returned
    idx,            \* per job: index of the candidate being processed
    unit,            \* per job: locals and uncommitted writes of the candidate's pgx.Tx
    cancelledCount, \* per job: cancelledCount of the run in progress
    report,         \* per job: what the last run that went into its loop, or
                    \* failed, returned and logged
    ctx,            \* the root context of main: "live" or "done"
    stopChan,       \* the worker's stopChan: "open" or "closed"
    main,           \* main: "serving", "stopping" (inside Stop) or "stopped"
    http            \* per call: the status code its handler wrote, 0 before

vars == <<users, transactions, nextID, userLock, pc, req, tx, resp,
          batch, idx, unit, cancelledCount, report, ctx, stopChan, main, http>>
storeVars == <<users, transactions, nextID, userLock>>
callVars == <<req, tx, resp, http>>
jobVars == <<batch, idx, unit, cancelledCount, report>>
mainVars == <<ctx, stopChan, main>>

UserIDs == DOMAIN SeedUsers

NoResp == [status |-> "", balance |-> "", err |-> ErrNone]
NoTx == [amount |-> 0, state |-> "", balance |-> 0, newBalance |-> 0,
         updated |-> FALSE, inserted |-> NoRecord]
NoUnit == [lockedID |-> 0, balance |-> 0, newBalance |-> 0, updated |-> FALSE]
\* What a run of the job leaves behind: the error it returned and, when it
\* logged them, the counts of its closing log line.
Report(err, logged, requested, cancelled) ==
    [ran |-> TRUE, err |-> err, logged |-> logged,
     requested |-> requested, cancelled |-> cancelled]
NoReport == [ran |-> FALSE, err |-> ErrNone, logged |-> FALSE,
             requested |-> 0, cancelled |-> 0]

\* The state after construction, with the calls carrying requests of reqs.
Start(reqs) ==
    /\ users = SeedUsers
    /\ transactions = {}
    /\ nextID = 1
    /\ userLock = [u \in UserIDs |-> NoOne]
    /\ pc = [p \in Calls \cup Instances |-> IF p \in Calls THEN "validate" ELSE "idle"]
    \* Calls are interchangeable: the requests are handed out in list order,
    \* which leaves out only permutations of the same set of calls.
    /\ \E f \in [Calls -> 1..Len(reqs)] :
          /\ \A p \in Calls : \A q \in Calls : p < q => f[p] <= f[q]
          /\ req = [p \in Calls |-> reqs[f[p]]]
    /\ tx = [p \in Calls |-> NoTx]
    /\ resp = [p \in Calls |-> NoResp]
    /\ http = [p \in Calls |-> 0]
    /\ batch = [s \in Instances |-> <<>>]
    /\ idx = [s \in Instances |-> 0]
    /\ unit = [s \in Instances |-> NoUnit]
    /\ cancelledCount = [s \in Instances |-> 0]
    /\ report = [s \in Instances |-> NoReport]
    /\ ctx = "live"
    /\ stopChan = "open"
    /\ main = "serving"

Init == Start(RequestSeq)

\* ------------------------------------------------------------ store reads
\* TransactionRepositoryImpl.GetTransaction: the committed row with the key.
GetTransaction(key) ==
    IF \E t \in transactions : t.transaction_id = key
    THEN CHOOSE t \in transactions : t.transaction_id = key
    ELSE NoRecord

\* UserRepositoryImpl.GetBalance: plain read of the committed balance.
GetBalance(u) == users[u].balance

\* Keys of rows inserted by transactions that have not committed yet; an
\* insert of the same key waits on the unique index until they finish.
PendingKeys(p) ==
    { tx[q].inserted.transaction_id : q \in { c \in Calls : c # p /\ tx[c].inserted # NoRecord } }

\* Rows of transactions locked by a cancellation unit in progress.
LockedRows == { unit[s].lockedID : s \in Instances } \ {0}

\* ------------------------------------------------- ProcessTransaction
Return(p, status, balance, err) ==
    /\ resp' = [resp EXCEPT ![p] = [status |-> status, balance |-> balance, err |-> err]]
    /\ pc' = [pc EXCEPT ![p] = "done"]

\* Mutant of Validate: an amount of zero is let through.
ValidateZeroAllowed(p) ==
    /\ pc[p] = "validate"
    /\ LET amount == NewFromString(req[p].amount)
           state == ParseState(req[p].state)
       IN  IF ~amount.ok \/ amount.value < 0
           THEN Return(p, "", "", ErrInvalidAmount) /\ UNCHANGED tx
           ELSE IF ~state.ok
           THEN Return(p, "", "", ErrInvalidState) /\ UNCHANGED tx
           ELSE /\ tx' = [tx EXCEPT ![p].amount = amount.value, ![p].state = state.state]
                /\ pc' = [pc EXCEPT ![p] = "getTransaction"]
                /\ UNCHANGED resp
    /\ UNCHANGED <<storeVars, req, jobVars, mainVars, http>>

\* Input validation, before the transaction is opened.
Validate(p) ==
    /\ pc[p] = "validate"
    /\ LET amount == NewFromString(req[p].amount)
           state == ParseState(req[p].state)
       IN  IF ~amount.ok \/ amount.value <= 0
           THEN Return(p, "", "", ErrInvalidAmount) /\ UNCHANGED tx
           ELSE IF ~state.ok
           THEN Return(p, "", "", ErrInvalidState) /\ UNCHANGED tx
           ELSE /\ tx' = [tx EXCEPT ![p].amount = amount.value, ![p].state = state.state]
                /\ pc' = [pc EXCEPT ![p] = "getTransaction"]
                /\ UNCHANGED resp
    /\ UNCHANGED <<storeVars, req, jobVars, mainVars, http>>

\* Mutant of LookupExisting: every existing row is reported as a conflict.
LookupExistingAlwaysConflict(p) ==
    /\ pc[p] = "getTransaction"
    /\ LET existingTrans == GetTransaction(req[p].transaction_id)
       IN  IF existingTrans # NoRecord
           THEN Return(p, "", "", ErrDuplicateTransaction)
           ELSE /\ pc' = [pc EXCEPT ![p] = "getUserForUpdate"]
                /\ UNCHANGED resp
    /\ UNCHANGED <<storeVars, req, tx, jobVars, mainVars, http>>

\* Mutant of LookupExisting: the owner of the existing row is not compared.
LookupExistingAnyOwner(p) ==
    /\ pc[p] = "getTransaction"
    /\ LET existingTrans == GetTransaction(req[p].transaction_id)
       IN  /\ pc' = [pc EXCEPT ![p] =
                        IF existingTrans # NoRecord THEN "getBalance" ELSE "getUserForUpdate"]
           /\ UNCHANGED resp
    /\ UNCHANGED <<storeVars, req, tx, jobVars, mainVars, http>>

\* Mutant of LookupExisting: a cancelled row does not count as existing.
LookupExistingSkipsCancelled(p) ==
    /\ pc[p] = "getTransaction"
    /\ LET found == GetTransaction(req[p].transaction_id)
           existingTrans == IF found # NoRecord /\ found.status = StatusCancelled
                            THEN NoRecord ELSE found
       IN  IF existingTrans # NoRecord /\ existingTrans.user_id # req[p].user_id
           THEN Return(p, "", "", ErrDuplicateTransaction)
           ELSE /\ pc' = [pc EXCEPT ![p] =
                        IF existingTrans # NoRecord THEN "getBalance" ELSE "getUserForUpdate"]
                /\ UNCHANGED resp
    /\ UNCHANGED <<storeVars, req, tx, jobVars, mainVars, http>>

\* Mutant of LookupExisting: a row with another state or amount than the
\* request is reported as a conflict.
LookupExistingComparesEvent(p) ==
    /\ pc[p] = "getTransaction"
    /\ LET existingTrans == GetTransaction(req[p].transaction_id)
       IN  IF existingTrans # NoRecord
                /\ (\/ existingTrans.user_id # req[p].user_id
                    \/ existingTrans.state # tx[p].state
                    \/ existingTrans.amount # tx[p].amount)
           THEN Return(p, "", "", ErrDuplicateTransaction)
           ELSE /\ pc' = [pc EXCEPT ![p] =
                        IF existingTrans # NoRecord THEN "getBalance" ELSE "getUserForUpdate"]
                /\ UNCHANGED resp
    /\ UNCHANGED <<storeVars, req, tx, jobVars, mainVars, http>>

\* GetTransaction inside the transaction and the branch on its result.
LookupExisting(p) ==
    /\ pc[p] = "getTransaction"
    /\ LET existingTrans == GetTransaction(req[p].transaction_id)
       IN  IF existingTrans # NoRecord /\ existingTrans.user_id # req[p].user_id
           THEN Return(p, "", "", ErrDuplicateTransaction)
           ELSE /\ pc' = [pc EXCEPT ![p] =
                        IF existingTrans # NoRecord THEN "getBalance" ELSE "getUserForUpdate"]
                /\ UNCHANGED resp
    /\ UNCHANGED <<storeVars, req, tx, jobVars, mainVars, http>>

\* Mutant of ReturnExisting: the replay reports the balance it would produce.
ReturnExistingApplied(p) ==
    /\ pc[p] = "getBalance"
    /\ Return(p, "already_processed",
              StringFixed2(AppliedBalance(GetBalance(req[p].user_id), tx[p].state, tx[p].amount)),
              ErrNone)
    /\ UNCHANGED <<storeVars, req, tx, jobVars, mainVars, http>>

\* Mutant of ReturnExisting: the replay puts the row back to processed.
ReturnExistingReopens(p) ==
    /\ pc[p] = "getBalance"
    /\ IF req[p].user_id \in UserIDs
       THEN Return(p, "already_processed", StringFixed2(GetBalance(req[p].user_id)), ErrNone)
       ELSE Return(p, "", "", ErrUserNotFound)
    /\ transactions' = { [t EXCEPT !.status =
                             IF t.transaction_id = req[p].transaction_id
                             THEN StatusProcessed ELSE t.status] : t \in transactions }
    /\ UNCHANGED <<users, nextID, userLock, req, tx, jobVars, mainVars, http>>

\* Same transaction_id and same user: GetBalance, then the unit commits.
ReturnExisting(p) ==
    /\ pc[p] = "getBalance"
    /\ IF req[p].user_id \in UserIDs
       THEN Return(p, "already_processed", StringFixed2(GetBalance(req[p].user_id)), ErrNone)
       ELSE Return(p, "", "", ErrUserNotFound)
    /\ UNCHANGED <<storeVars, req, tx, jobVars, mainVars, http>>

\* Mutant of GetUserForUpdate: the new balance is written without the check.
GetUserForUpdateNoCheck(p) ==
    /\ pc[p] = "getUserForUpdate"
    /\ LET u == req[p].user_id
       IN  IF u \notin UserIDs
           THEN Return(p, "", "", ErrUserNotFound) /\ UNCHANGED <<tx, userLock>>
           ELSE /\ userLock[u] = NoOne
                /\ tx' = [tx EXCEPT ![p].balance = users[u].balance,
                                    ![p].newBalance =
                                        AppliedBalance(users[u].balance, tx[p].state, tx[p].amount),
                                    ![p].updated = TRUE]
                /\ userLock' = [userLock EXCEPT ![u] = p]
                /\ pc' = [pc EXCEPT ![p] = "insertTransaction"]
                /\ UNCHANGED resp
    /\ UNCHANGED <<users, transactions, nextID, req, jobVars, mainVars, http>>

\* Mutant of GetUserForUpdate: the row is read without waiting for its lock.
GetUserForUpdateNoLock(p) ==
    /\ pc[p] = "getUserForUpdate"
    /\ LET u == req[p].user_id
       IN  IF u \notin UserIDs
           THEN Return(p, "", "", ErrUserNotFound) /\ UNCHANGED <<tx, userLock>>
           ELSE LET newBalance == AppliedBalance(users[u].balance, tx[p].state, tx[p].amount)
                IN  /\ tx' = [tx EXCEPT ![p].balance = users[u].balance,
                                        ![p].newBalance = newBalance,
                                        ![p].updated = ~LessThanZero(newBalance)]
                    /\ IF LessThanZero(newBalance)
                       THEN Return(p, "", "", ErrInsufficientBalance) /\ UNCHANGED userLock
                       ELSE /\ userLock' = [userLock EXCEPT ![u] = p]
                            /\ pc' = [pc EXCEPT ![p] = "insertTransaction"]
                            /\ UNCHANGED resp
    /\ UNCHANGED <<users, transactions, nextID, req, jobVars, mainVars, http>>

\* Mutant of GetUserForUpdate: a user without a row is taken as an account
\* with balance zero.
GetUserForUpdateMissingAsEmpty(p) ==
    /\ pc[p] = "getUserForUpdate"
    /\ LET u == req[p].user_id
           balance == IF u \in UserIDs THEN users[u].balance ELSE 0
           newBalance == AppliedBalance(balance, tx[p].state, tx[p].amount)
       IN  /\ u \in UserIDs => userLock[u] = NoOne
           /\ tx' = [tx EXCEPT ![p].balance = balance,
                               ![p].newBalance = newBalance,
                               ![p].updated = ~LessThanZero(newBalance)]
           /\ IF LessThanZero(newBalance)
              THEN Return(p, "", "", ErrInsufficientBalance) /\ UNCHANGED userLock
              ELSE /\ userLock' = [v \in UserIDs |-> IF v = u THEN p ELSE userLock[v]]
                   /\ pc' = [pc EXCEPT ![p] = "insertTransaction"]
                   /\ UNCHANGED resp
    /\ UNCHANGED <<users, transactions, nextID, req, jobVars, mainVars, http>>

\* GetUserForUpdate (waits for the row lock), the new balance, its check and
\* UpdateBalance, which is an uncommitted write of the locked row.
GetUserForUpdate(p) ==
    /\ pc[p] = "getUserForUpdate"
    /\ LET u == req[p].user_id
       IN  IF u \notin UserIDs
           THEN Return(p, "", "", ErrUserNotFound) /\ UNCHANGED <<tx, userLock>>
           ELSE /\ userLock[u] = NoOne
                /\ LET newBalance == AppliedBalance(users[u].balance, tx[p].state, tx[p].amount)
                   IN  /\ tx' = [tx EXCEPT ![p].balance = users[u].balance,
                                           ![p].newBalance = newBalance,
                                           ![p].updated = ~LessThanZero(newBalance)]
                       /\ IF LessThanZero(newBalance)
                          THEN Return(p, "", "", ErrInsufficientBalance) /\ UNCHANGED userLock
                          ELSE /\ userLock' = [userLock EXCEPT ![u] = p]
                               /\ pc' = [pc EXCEPT ![p] = "insertTransaction"]
                               /\ UNCHANGED resp
    /\ UNCHANGED <<users, transactions, nextID, req, jobVars, mainVars, http>>

\* The row ProcessTransaction inserts.
NewTransaction(p, id) ==
    [id |-> id, transaction_id |-> req[p].transaction_id, user_id |-> req[p].user_id,
     state |-> tx[p].state, amount |-> tx[p].amount, status |-> StatusProcessed]

\* WithTransaction's rollback: uncommitted writes are dropped, locks released.
Rollback(p) ==
    /\ tx' = [tx EXCEPT ![p].updated = FALSE, ![p].inserted = NoRecord]
    /\ userLock' = [u \in UserIDs |-> IF userLock[u] = p THEN NoOne ELSE userLock[u]]

\* Mutant of InsertTransaction: no unique constraint on transaction_id.
InsertTransactionNoUnique(p) ==
    /\ pc[p] = "insertTransaction"
    /\ nextID' = nextID + 1
    /\ tx' = [tx EXCEPT ![p].inserted = NewTransaction(p, nextID)]
    /\ pc' = [pc EXCEPT ![p] = "commit"]
    /\ UNCHANGED <<users, transactions, userLock, req, resp, jobVars, mainVars, http>>

\* Mutant of InsertTransaction: the insert does not wait for a pending insert
\* of the same transaction_id.
InsertTransactionNoWait(p) ==
    /\ pc[p] = "insertTransaction"
    /\ nextID' = nextID + 1
    /\ IF GetTransaction(req[p].transaction_id) # NoRecord
       THEN /\ Rollback(p)
            /\ pc' = [pc EXCEPT ![p] = "raceGetTransaction"]
       ELSE /\ tx' = [tx EXCEPT ![p].inserted = NewTransaction(p, nextID)]
            /\ pc' = [pc EXCEPT ![p] = "commit"]
            /\ UNCHANGED userLock
    /\ UNCHANGED <<users, transactions, req, resp, jobVars, mainVars, http>>

\* InsertTransaction: a unique violation on a committed key rolls the unit
\* back with errDuplicateInsertRace; the id sequence advances either way.
InsertTransaction(p) ==
    /\ pc[p] = "insertTransaction"
    /\ req[p].transaction_id \notin PendingKeys(p)
    /\ nextID' = nextID + 1
    /\ IF GetTransaction(req[p].transaction_id) # NoRecord
       THEN /\ Rollback(p)
            /\ pc' = [pc EXCEPT ![p] = "raceGetTransaction"]
       ELSE /\ tx' = [tx EXCEPT ![p].inserted = NewTransaction(p, nextID)]
            /\ pc' = [pc EXCEPT ![p] = "commit"]
            /\ UNCHANGED userLock
    /\ UNCHANGED <<users, transactions, req, resp, jobVars, mainVars, http>>

\* Mutant of Commit: the version of the users row is left as it was.
CommitKeepsVersion(p) ==
    /\ pc[p] = "commit"
    /\ LET u == req[p].user_id
       IN  /\ users' = [users EXCEPT ![u] = [balance |-> tx[p].newBalance,
                                             version |-> users[u].version]]
           /\ transactions' = transactions \cup {tx[p].inserted}
           /\ userLock' = [userLock EXCEPT ![u] = NoOne]
           /\ tx' = [tx EXCEPT ![p].updated = FALSE, ![p].inserted = NoRecord]
           /\ Return(p, "success", StringFixed2(tx[p].newBalance), ErrNone)
    /\ UNCHANGED <<nextID, req, jobVars, mainVars, http>>

\* Mutant of Commit: the lock of the users row is not released.
CommitKeepsLock(p) ==
    /\ pc[p] = "commit"
    /\ LET u == req[p].user_id
       IN  /\ users' = [users EXCEPT ![u] = [balance |-> tx[p].newBalance,
                                             version |-> users[u].version + 1]]
           /\ transactions' = transactions \cup {tx[p].inserted}
           /\ tx' = [tx EXCEPT ![p].updated = FALSE, ![p].inserted = NoRecord]
           /\ Return(p, "success", StringFixed2(tx[p].newBalance), ErrNone)
    /\ UNCHANGED <<nextID, userLock, req, jobVars, mainVars, http>>

\* tx.Commit of a successful unit: both writes become visible together.
Commit(p) ==
    /\ pc[p] = "commit"
    /\ LET u == req[p].user_id
       IN  /\ users' = [users EXCEPT ![u] = [balance |-> tx[p].newBalance,
                                             version |-> users[u].version + 1]]
           /\ transactions' = transactions \cup {tx[p].inserted}
           /\ userLock' = [userLock EXCEPT ![u] = NoOne]
           /\ tx' = [tx EXCEPT ![p].updated = FALSE, ![p].inserted = NoRecord]
           /\ Return(p, "success", StringFixed2(tx[p].newBalance), ErrNone)
    /\ UNCHANGED <<nextID, req, jobVars, mainVars, http>>

\* Mutant of RaceGetTransaction: the lost race is surfaced as a conflict.
RaceGetTransactionAlwaysConflict(p) ==
    /\ pc[p] = "raceGetTransaction"
    /\ Return(p, "", "", ErrDuplicateTransaction)
    /\ UNCHANGED <<storeVars, req, tx, jobVars, mainVars, http>>

\* Mutant of RaceGetTransaction: the owner of the re-read row is not compared.
RaceGetTransactionAnyOwner(p) ==
    /\ pc[p] = "raceGetTransaction"
    /\ LET existing == GetTransaction(req[p].transaction_id)
       IN  IF existing = NoRecord
           THEN Return(p, "", "", ErrTransactionNotFound)
           ELSE pc' = [pc EXCEPT ![p] = "raceGetBalance"] /\ UNCHANGED resp
    /\ UNCHANGED <<storeVars, req, tx, jobVars, mainVars, http>>

\* After errDuplicateInsertRace: GetTransaction outside any transaction.
RaceGetTransaction(p) ==
    /\ pc[p] = "raceGetTransaction"
    /\ LET existing == GetTransaction(req[p].transaction_id)
       IN  IF existing = NoRecord
           THEN Return(p, "", "", ErrTransactionNotFound)
           ELSE IF existing.user_id # req[p].user_id
           THEN Return(p, "", "", ErrDuplicateTransaction)
           ELSE pc' = [pc EXCEPT ![p] = "raceGetBalance"] /\ UNCHANGED resp
    /\ UNCHANGED <<storeVars, req, tx, jobVars, mainVars, http>>

\* Mutant of RaceGetBalance: the balance written by the unit that was rolled
\* back is reported.
RaceGetBalanceTentative(p) ==
    /\ pc[p] = "raceGetBalance"
    /\ Return(p, "already_processed", StringFixed2(tx[p].newBalance), ErrNone)
    /\ UNCHANGED <<storeVars, req, tx, jobVars, mainVars, http>>

\* After errDuplicateInsertRace: GetBalance outside any transaction.
RaceGetBalance(p) ==
    /\ pc[p] = "raceGetBalance"
    /\ Return(p, "already_processed", StringFixed2(GetBalance(req[p].user_id)), ErrNone)
    /\ UNCHANGED <<storeVars, req, tx, jobVars, mainVars, http>>

ProcessTransaction(p) ==
    \/ Validate(p)
    \/ LookupExisting(p)
    \/ ReturnExisting(p)
    \/ GetUserForUpdate(p)
    \/ InsertTransaction(p)
    \/ Commit(p)
    \/ RaceGetTransaction(p)
    \/ RaceGetBalance(p)


\* ------------------------------------------- ProcessOddRecordCancellation
\* ORDER BY id DESC: the row at position i has i - 1 rows with a higher id.
DescendingByID(rows) ==
    [i \in 1..Cardinality(rows) |->
        CHOOSE t \in rows : Cardinality({ o \in rows : o.id > t.id }) = i - 1]

\* Mutant of GetLatestOddProcessedTransactions: the query has no LIMIT.
GetLatestOddProcessedTransactionsUnlimited(limit) ==
    DescendingByID({ t \in transactions : t.id % 2 = 1 /\ t.status = StatusProcessed })

\* TransactionRepositoryImpl.GetLatestOddProcessedTransactions
GetLatestOddProcessedTransactions(limit) ==
    LET rows == DescendingByID({ t \in transactions :
                                   t.id % 2 = 1 /\ t.status = StatusProcessed })
    IN  SubSeq(rows, 1, IF Len(rows) < limit THEN Len(rows) ELSE limit)

\* The committed row with the given id (ids of candidates always exist).
RowByID(id) == CHOOSE t \in transactions : t.id = id

\* The end of one iteration of the loop over the candidates; after the last
\* one the job logs its counts and returns nil.
NextCandidate(s, counted) ==
    LET count == cancelledCount[s] + (IF counted THEN 1 ELSE 0)
    IN  /\ unit' = [unit EXCEPT ![s] = NoUnit]
        /\ IF idx[s] < Len(batch[s])
           THEN /\ idx' = [idx EXCEPT ![s] = @ + 1]
                /\ cancelledCount' = [cancelledCount EXCEPT ![s] = count]
                /\ pc' = [pc EXCEPT ![s] = "lockTransaction"]
                /\ UNCHANGED <<batch, report>>
           ELSE /\ idx' = [idx EXCEPT ![s] = 0]
                /\ cancelledCount' = [cancelledCount EXCEPT ![s] = 0]
                /\ batch' = [batch EXCEPT ![s] = <<>>]
                /\ pc' = [pc EXCEPT ![s] = "idle"]
                /\ report' = [report EXCEPT ![s] = Report(ErrNone, TRUE, Len(batch[s]), count)]

\* The loop found ctx.Done(): the job returns ctx.Err() and logs no counts.
ReturnContextErr(s) ==
    /\ idx' = [idx EXCEPT ![s] = 0]
    /\ batch' = [batch EXCEPT ![s] = <<>>]
    /\ pc' = [pc EXCEPT ![s] = "idle"]
    /\ report' = [report EXCEPT ![s] = Report(ErrContextCanceled, FALSE, 0, 0)]
    /\ cancelledCount' = [cancelledCount EXCEPT ![s] = 0]
    /\ UNCHANGED unit

\* Mutant of SelectCandidates: an empty selection is reported as an error.
SelectCandidatesEmptyIsError(s) ==
    /\ pc[s] = "idle"
    /\ IF ctx = "done"
       THEN /\ report' = [report EXCEPT ![s] = Report(errGetOddTransactions, FALSE, 0, 0)]
            /\ UNCHANGED <<pc, batch, idx, cancelledCount>>
       ELSE LET found == GetLatestOddProcessedTransactions(CancellationLimit)
            IN  IF Len(found) = 0
                THEN /\ report' = [report EXCEPT ![s] = Report(errGetOddTransactions, FALSE, 0, 0)]
                     /\ UNCHANGED <<pc, batch, idx, cancelledCount>>
                ELSE /\ batch' = [batch EXCEPT ![s] = found]
                     /\ idx' = [idx EXCEPT ![s] = 1]
                     /\ cancelledCount' = [cancelledCount EXCEPT ![s] = 0]
                     /\ pc' = [pc EXCEPT ![s] = "lockTransaction"]
                     /\ UNCHANGED report
    /\ UNCHANGED <<storeVars, callVars, unit, mainVars>>

\* A tick of the worker: the job starts and selects its candidates.  The
\* query fails on a cancelled context.
SelectCandidates(s) ==
    /\ pc[s] = "idle"
    /\ IF ctx = "done"
       THEN /\ report' = [report EXCEPT ![s] = Report(errGetOddTransactions, FALSE, 0, 0)]
            /\ UNCHANGED <<pc, batch, idx, cancelledCount>>
       ELSE LET found == GetLatestOddProcessedTransactions(CancellationLimit)
            IN  IF Len(found) = 0
                THEN UNCHANGED <<pc, batch, idx, cancelledCount, report>>
                ELSE /\ batch' = [batch EXCEPT ![s] = found]
                     /\ idx' = [idx EXCEPT ![s] = 1]
                     /\ cancelledCount' = [cancelledCount EXCEPT ![s] = 0]
                     /\ pc' = [pc EXCEPT ![s] = "lockTransaction"]
                     /\ UNCHANGED report
    /\ UNCHANGED <<storeVars, callVars, unit, mainVars>>

\* Mutant of LockTransactionForCancellation: the loop does not look at ctx.
LockTransactionForCancellationNoCheck(s) ==
    /\ pc[s] = "lockTransaction"
    /\ LET id == batch[s][idx[s]].id
           locked == RowByID(id).status = StatusProcessed /\ id \notin LockedRows
       IN  IF locked
           THEN /\ unit' = [unit EXCEPT ![s].lockedID = id]
                /\ pc' = [pc EXCEPT ![s] = "getUserForUpdate"]
                /\ UNCHANGED <<batch, idx, cancelledCount, report>>
           ELSE NextCandidate(s, FALSE)
    /\ UNCHANGED <<storeVars, callVars, mainVars>>

\* Mutant of LockTransactionForCancellation: a row that another unit has
\* locked is taken as well.
LockTransactionForCancellationNoSkip(s) ==
    /\ pc[s] = "lockTransaction"
    /\ IF ctx = "done"
       THEN ReturnContextErr(s)
       ELSE LET id == batch[s][idx[s]].id
                locked == RowByID(id).status = StatusProcessed
            IN  IF locked
                THEN /\ unit' = [unit EXCEPT ![s].lockedID = id]
                     /\ pc' = [pc EXCEPT ![s] = "getUserForUpdate"]
                     /\ UNCHANGED <<batch, idx, cancelledCount, report>>
                ELSE NextCandidate(s, FALSE)
    /\ UNCHANGED <<storeVars, callVars, mainVars>>

\* The check of ctx.Done() at the head of the loop, then
\* LockTransactionForCancellation: FOR UPDATE SKIP LOCKED of a processed row.
LockTransactionForCancellation(s) ==
    /\ pc[s] = "lockTransaction"
    /\ IF ctx = "done"
       THEN ReturnContextErr(s)
       ELSE LET id == batch[s][idx[s]].id
                locked == RowByID(id).status = StatusProcessed /\ id \notin LockedRows
            IN  IF locked
                THEN /\ unit' = [unit EXCEPT ![s].lockedID = id]
                     /\ pc' = [pc EXCEPT ![s] = "getUserForUpdate"]
                     /\ UNCHANGED <<batch, idx, cancelledCount, report>>
                ELSE NextCandidate(s, FALSE)
    /\ UNCHANGED <<storeVars, callVars, mainVars>>

\* Mutant of CancelGetUserForUpdate: the unit that would make the balance
\* negative is reported as a failed run.
CancelGetUserForUpdateRaises(s) ==
    /\ pc[s] = "getUserForUpdate"
    /\ ctx = "live"
    /\ LET trans == batch[s][idx[s]]
           u == trans.user_id
           newBalance == ReversedBalance(users[u].balance, trans.state, trans.amount)
       IN  /\ userLock[u] = NoOne
           /\ IF LessThanZero(newBalance)
              THEN /\ unit' = [unit EXCEPT ![s] = NoUnit]
                   /\ idx' = [idx EXCEPT ![s] = 0]
                   /\ batch' = [batch EXCEPT ![s] = <<>>]
                   /\ pc' = [pc EXCEPT ![s] = "idle"]
                   /\ report' = [report EXCEPT ![s] =
                                    Report(ErrInsufficientBalance, FALSE, 0, 0)]
                   /\ cancelledCount' = [cancelledCount EXCEPT ![s] = 0]
                   /\ UNCHANGED userLock
              ELSE /\ unit' = [unit EXCEPT ![s].balance = users[u].balance,
                                           ![s].newBalance = newBalance,
                                           ![s].updated = TRUE]
                   /\ userLock' = [userLock EXCEPT ![u] = s]
                   /\ pc' = [pc EXCEPT ![s] = "cancelTransaction"]
                   /\ UNCHANGED <<batch, idx, cancelledCount, report>>
    /\ UNCHANGED <<users, transactions, nextID, callVars, mainVars>>

\* GetUserForUpdate of the owner, the reversed balance, its check and
\* UpdateBalance, which is an uncommitted write of the locked row.
CancelGetUserForUpdate(s) ==
    /\ pc[s] = "getUserForUpdate"
    /\ ctx = "live"
    /\ LET trans == batch[s][idx[s]]
           u == trans.user_id
           newBalance == ReversedBalance(users[u].balance, trans.state, trans.amount)
       IN  /\ userLock[u] = NoOne
           /\ IF LessThanZero(newBalance)
              THEN NextCandidate(s, FALSE) /\ UNCHANGED userLock
              ELSE /\ unit' = [unit EXCEPT ![s].balance = users[u].balance,
                                           ![s].newBalance = newBalance,
                                           ![s].updated = TRUE]
                   /\ userLock' = [userLock EXCEPT ![u] = s]
                   /\ pc' = [pc EXCEPT ![s] = "cancelTransaction"]
                   /\ UNCHANGED <<batch, idx, cancelledCount, report>>
    /\ UNCHANGED <<users, transactions, nextID, callVars, mainVars>>

\* Mutant of CancelTransactionIfProcessed: the row is deleted.
CancelTransactionIfProcessedDeletes(s) ==
    /\ pc[s] = "cancelTransaction"
    /\ ctx = "live"
    /\ LET trans == batch[s][idx[s]]
           u == trans.user_id
           row == RowByID(trans.id)
       IN  /\ users' = [users EXCEPT ![u] = [balance |-> unit[s].newBalance,
                                             version |-> users[u].version + 1]]
           /\ transactions' = transactions \ {row}
           /\ userLock' = [userLock EXCEPT ![u] = NoOne]
           /\ NextCandidate(s, TRUE)
    /\ UNCHANGED <<nextID, callVars, mainVars>>

\* Mutant of CancelTransactionIfProcessed: the balance write is lost.
CancelTransactionIfProcessedKeepsBalance(s) ==
    /\ pc[s] = "cancelTransaction"
    /\ ctx = "live"
    /\ LET trans == batch[s][idx[s]]
           u == trans.user_id
           row == RowByID(trans.id)
           updated == row.status = StatusProcessed
       IN  /\ users' = [users EXCEPT ![u] = [balance |-> unit[s].balance,
                                             version |-> users[u].version + 1]]
           /\ transactions' =
                  IF updated
                  THEN (transactions \ {row}) \cup {[row EXCEPT !.status = StatusCancelled]}
                  ELSE transactions
           /\ userLock' = [userLock EXCEPT ![u] = NoOne]
           /\ NextCandidate(s, updated)
    /\ UNCHANGED <<nextID, callVars, mainVars>>

\* CancelTransactionIfProcessed (the status changes if the row is still
\* processed), then tx.Commit of the unit, then the next candidate.
CancelTransactionIfProcessed(s) ==
    /\ pc[s] = "cancelTransaction"
    /\ ctx = "live"
    /\ LET trans == batch[s][idx[s]]
           u == trans.user_id
           row == RowByID(trans.id)
           updated == row.status = StatusProcessed
       IN  /\ users' = [users EXCEPT ![u] = [balance |-> unit[s].newBalance,
                                             version |-> users[u].version + 1]]
           /\ transactions' =
                  IF updated
                  THEN (transactions \ {row}) \cup {[row EXCEPT !.status = StatusCancelled]}
                  ELSE transactions
           /\ userLock' = [userLock EXCEPT ![u] = NoOne]
           /\ NextCandidate(s, updated)
    /\ UNCHANGED <<nextID, callVars, mainVars>>

ProcessOddRecordCancellation(s) ==
    \/ SelectCandidates(s)
    \/ LockTransactionForCancellation(s)
    \/ CancelGetUserForUpdate(s)
    \/ CancelTransactionIfProcessed(s)

\* ------------------------------------- failures inside ProcessTransaction
\* Mutant of CallCommitFails: the response built inside the unit is returned
\* although the commit failed.
CallCommitFailsReportsSuccess(p) ==
    /\ pc[p] = "commit"
    /\ Rollback(p)
    /\ Return(p, "success", StringFixed2(tx[p].newBalance), ErrNone)
    /\ UNCHANGED <<users, transactions, nextID, req, jobVars, mainVars, http>>

\* Mutant of CallCommitFails: the writes of the unit outlive the failed commit.
CallCommitFailsKeepsWrites(p) ==
    /\ pc[p] = "commit"
    /\ LET u == req[p].user_id
       IN  /\ users' = [users EXCEPT ![u] = [balance |-> tx[p].newBalance,
                                             version |-> users[u].version + 1]]
           /\ transactions' = transactions \cup {tx[p].inserted}
    /\ Rollback(p)
    /\ Return(p, "", "", errCommitTransaction)
    /\ UNCHANGED <<nextID, req, jobVars, mainVars, http>>

\* Begin or a store call of the unit returns an error: fn returns it wrapped,
\* WithTransaction rolls back and ProcessTransaction returns the error.
CallStoreError(p) ==
    /\ pc[p] \in {"getTransaction", "getBalance", "getUserForUpdate", "insertTransaction"}
    /\ Rollback(p)
    /\ \E e \in (CASE pc[p] = "getTransaction" -> {errBeginTransaction, errGetTransaction}
                  [] pc[p] = "getBalance" -> {errGetBalance}
                  [] pc[p] = "getUserForUpdate" -> {errGetUserForUpdate}
                  [] pc[p] = "insertTransaction" -> {errInsertTransaction}) :
          Return(p, "", "", e)
    /\ UNCHANGED <<users, transactions, nextID, req, jobVars, mainVars, http>>

\* fn has returned nil and tx.Commit fails: the unit is rolled back and
\* ProcessTransaction returns the error, not the response fn had built.
CallCommitFails(p) ==
    /\ pc[p] = "commit"
    /\ Rollback(p)
    /\ Return(p, "", "", errCommitTransaction)
    /\ UNCHANGED <<users, transactions, nextID, req, jobVars, mainVars, http>>

\* A read after errDuplicateInsertRace returns an error.
RaceReadFails(p) ==
    /\ pc[p] \in {"raceGetTransaction", "raceGetBalance"}
    /\ Return(p, "", "", IF pc[p] = "raceGetTransaction"
                          THEN errGetTransactionAfterDuplicate
                          ELSE errGetBalanceAfterDuplicate)
    /\ UNCHANGED <<storeVars, req, tx, jobVars, mainVars, http>>

\* ----------------------------------------- failures inside a cancellation
\* WithTransaction's rollback of a candidate's unit: its row locks go.
CancelRollback(s) ==
    userLock' = [u \in UserIDs |-> IF userLock[u] = s THEN NoOne ELSE userLock[u]]

\* The store call the unit is about to make fails because ctx is done; fn
\* returns the error, the unit is rolled back and the loop goes on.
CancelUnitAborted(s) ==
    /\ pc[s] \in {"getUserForUpdate", "cancelTransaction"}
    /\ ctx = "done"
    /\ CancelRollback(s)
    /\ NextCandidate(s, FALSE)
    /\ UNCHANGED <<users, transactions, nextID, callVars, mainVars>>

\* Mutant of CancelUnitStoreError: the error of a unit is returned by the job.
CancelUnitStoreErrorRaises(s) ==
    /\ pc[s] \in {"lockTransaction", "getUserForUpdate", "cancelTransaction"}
    /\ ctx = "live"
    /\ CancelRollback(s)
    /\ unit' = [unit EXCEPT ![s] = NoUnit]
    /\ idx' = [idx EXCEPT ![s] = 0]
    /\ batch' = [batch EXCEPT ![s] = <<>>]
    /\ pc' = [pc EXCEPT ![s] = "idle"]
    /\ report' = [report EXCEPT ![s] = Report(errGetOddTransactions, FALSE, 0, 0)]
    /\ cancelledCount' = [cancelledCount EXCEPT ![s] = 0]
    /\ UNCHANGED <<users, transactions, nextID, callVars, mainVars>>

\* Begin or a store call of the unit returns an error: fn returns it, the
\* unit is rolled back, the error is logged and the loop goes on.
CancelUnitStoreError(s) ==
    /\ pc[s] \in {"lockTransaction", "getUserForUpdate", "cancelTransaction"}
    /\ ctx = "live"
    /\ CancelRollback(s)
    /\ NextCandidate(s, FALSE)
    /\ UNCHANGED <<users, transactions, nextID, callVars, mainVars>>

\* Mutant of CancelCommitFails: the balance write outlives the failed commit.
CancelCommitFailsKeepsBalance(s) ==
    /\ pc[s] = "cancelTransaction"
    /\ ctx = "live"
    /\ CancelRollback(s)
    /\ NextCandidate(s, RowByID(batch[s][idx[s]].id).status = StatusProcessed)
    /\ users' = [users EXCEPT ![batch[s][idx[s]].user_id] =
                    [balance |-> unit[s].newBalance, version |-> @.version + 1]]
    /\ UNCHANGED <<transactions, nextID, callVars, mainVars>>

\* fn has returned nil with cancelled = true and tx.Commit fails: the unit
\* is rolled back, the error is logged, and cancelledCount is incremented.
CancelCommitFails(s) ==
    /\ pc[s] = "cancelTransaction"
    /\ ctx = "live"
    /\ CancelRollback(s)
    /\ NextCandidate(s, RowByID(batch[s][idx[s]].id).status = StatusProcessed)
    /\ UNCHANGED <<users, transactions, nextID, callVars, mainVars>>

\* GetLatestOddProcessedTransactions returns an error: the job returns it.
SelectCandidatesFails(s) ==
    /\ pc[s] = "idle"
    /\ ctx = "live"
    /\ report' = [report EXCEPT ![s] = Report(errGetOddTransactions, FALSE, 0, 0)]
    /\ UNCHANGED <<storeVars, callVars, mainVars, pc, batch, idx, unit, cancelledCount>>

\* ------------------------------------------------- worker and main
\* SIGINT or SIGTERM: the root context is cancelled.
Signal ==
    /\ ctx = "live"
    /\ ctx' = "done"
    /\ UNCHANGED <<storeVars, callVars, jobVars, pc, stopChan, main>>

\* The select of the worker's loop takes stopChan or ctx.Done().
WorkerExit(s) ==
    /\ pc[s] = "idle"
    /\ stopChan = "closed" \/ ctx = "done"
    /\ pc' = [pc EXCEPT ![s] = "exited"]
    /\ UNCHANGED <<storeVars, callVars, jobVars, mainVars>>

\* main is past <-ctx.Done(): the deferred Stop closes stopChan and waits.
Stop ==
    /\ main = "serving"
    /\ ctx = "done"
    /\ stopChan' = "closed"
    /\ main' = "stopping"
    /\ UNCHANGED <<storeVars, callVars, jobVars, pc, ctx>>

\* wg.Wait returns once the worker's goroutine is gone.
StopReturns ==
    /\ main = "stopping"
    /\ \A s \in Sweepers : pc[s] = "exited"
    /\ main' = "stopped"
    /\ UNCHANGED <<storeVars, callVars, jobVars, pc, ctx, stopChan>>

\* ------------------------------------------------- HTTP adapter
\* Mutant of handleError: a duplicate of another owner is a bad request.
handleErrorNoConflict(err) ==
    CASE err \in {ErrInsufficientBalance, ErrInvalidAmount, ErrInvalidState,
                  ErrInvalidSourceType, ErrDuplicateTransaction} -> StatusBadRequest
      [] err \in {ErrUserNotFound, ErrTransactionNotFound} -> StatusNotFound
      [] OTHER -> StatusInternalServerError

\* Handler.handleError: the status code of an error, 500 unless a case of
\* the switch matches.
handleError(err) ==
    CASE err = ErrInsufficientBalance -> StatusBadRequest
      [] err \in {ErrInvalidAmount, ErrInvalidState, ErrInvalidSourceType} -> StatusBadRequest
      [] err \in {ErrUserNotFound, ErrTransactionNotFound} -> StatusNotFound
      [] err = ErrDuplicateTransaction -> StatusConflict
      [] OTHER -> StatusInternalServerError

\* Handler.ProcessTransaction once the outcome is known: the error goes
\* through handleError, a first application is Created and a replay is OK.
Respond(p) ==
    /\ pc[p] = "done"
    /\ http' = [http EXCEPT ![p] =
                   IF resp[p].err # ErrNone THEN handleError(resp[p].err)
                   ELSE IF resp[p].status = "already_processed" THEN StatusOK
                   ELSE StatusCreated]
    /\ pc' = [pc EXCEPT ![p] = "responded"]
    /\ UNCHANGED <<storeVars, req, tx, resp, jobVars, mainVars>>

\* ------------------------------------------------------------ specification
\* Normal operation: no signal arrives and no store call fails.
Next ==
    \/ \E p \in Calls : ProcessTransaction(p)
    \/ \E s \in Sweepers : ProcessOddRecordCancellation(s)

Spec == Init /\ [][Next]_vars

\* Operation with shutdown and failing store calls in the cancellation job,
\* for calls on the requests of FaultRequests.
FaultRequests == { Request("k1", 1, StateLost, T1000),
                   Request("k1", 2, StateWin, T1000),
                   Request("k2", 2, StateLost, T1000) }
FaultRequestSeq == SetToSeq(FaultRequests)

InitFaults == Start(FaultRequestSeq)

NextFaults ==
    \/ Next
    \/ Signal
    \/ Stop
    \/ StopReturns
    \/ \E s \in Sweepers : WorkerExit(s)
    \/ \E s \in Sweepers : CancelUnitAborted(s)
    \/ \E s \in Sweepers : CancelUnitStoreError(s)
    \/ \E s \in Sweepers : CancelCommitFails(s)
    \/ \E s \in Sweepers : SelectCandidatesFails(s)

SpecFaults == InitFaults /\ [][NextFaults]_vars

\* Operation with failing store calls in ProcessTransaction, for calls on the
\* requests of FaultRequests.
NextCallFaults ==
    \/ Next
    \/ \E p \in Calls : CallStoreError(p)
    \/ \E p \in Calls : CallCommitFails(p)
    \/ \E p \in Calls : RaceReadFails(p)

SpecCallFaults == InitFaults /\ [][NextCallFaults]_vars

\* Two instances of the program on one store: the calls on the requests of
\* FaultRequests and the cancellation job of either instance.
NextInstances ==
    \/ \E p \in Calls : ProcessTransaction(p)
    \/ \E s \in Instances : ProcessOddRecordCancellation(s)

SpecInstances == InitFaults /\ [][NextInstances]_vars

\* The same under fair scheduling: the calls are not held back forever while
\* one of them can take a step, and neither is the job of an instance.
Fairness ==
    /\ WF_vars(\E p \in Calls : ProcessTransaction(p))
    /\ \A s \in Instances : WF_vars(ProcessOddRecordCancellation(s))

SpecInstancesFair == InitFaults /\ [][NextInstances]_vars /\ Fairness

\* The cancellation job alone, on a table that earlier calls of user 1 filled
\* with wins of 10.00 and earlier runs of the job cancelled part of.
SeededRow(id, cancelled) ==
    [id |-> id, transaction_id |-> "t" \o ToString(id), user_id |-> 1,
     state |-> StateWin, amount |-> 1000,
     status |-> IF cancelled THEN StatusCancelled ELSE StatusProcessed]

InitSelect ==
    /\ \E n \in 0..MaxRows : \E a \in 1..(n + 1) : \E b \in 0..n :
          LET cancelledIDs == { i \in a..b : i % 2 = 1 }
              processedRows == n - Cardinality(cancelledIDs)
          IN  /\ transactions = { SeededRow(i, i \in cancelledIDs) : i \in 1..n }
              /\ users = [SeedUsers EXCEPT ![1] =
                              [balance |-> SeedUsers[1].balance + 1000 * processedRows,
                               version |-> n + Cardinality(cancelledIDs)]]
              /\ nextID = n + 1
    /\ userLock = [u \in UserIDs |-> NoOne]
    /\ pc = [p \in Calls \cup Instances |-> IF p \in Calls THEN "validate" ELSE "idle"]
    /\ req = [p \in Calls |-> RequestSeq[1]]
    /\ tx = [p \in Calls |-> NoTx]
    /\ resp = [p \in Calls |-> NoResp]
    /\ http = [p \in Calls |-> 0]
    /\ batch = [s \in Instances |-> <<>>]
    /\ idx = [s \in Instances |-> 0]
    /\ unit = [s \in Instances |-> NoUnit]
    /\ cancelledCount = [s \in Instances |-> 0]
    /\ report = [s \in Instances |-> NoReport]
    /\ ctx = "live"
    /\ stopChan = "open"
    /\ main = "serving"

NextSelect == \E s \in Sweepers : ProcessOddRecordCancellation(s)

SpecSelect == InitSelect /\ [][NextSelect]_vars

\* The cancellation job alone under a ticker that keeps firing, on a table
\* that calls filled in this order: user 1 lost 10.00 (id 1) and won 10.00
\* (id 2), then user 2 won 10.00 (odd id) and lost 10.00 (even id) in turn.
StarvedRow(id) ==
    [id |-> id, transaction_id |-> "t" \o ToString(id),
     user_id |-> IF id <= 2 THEN 1 ELSE 2,
     state |-> IF id = 1 THEN StateLost
               ELSE IF id = 2 THEN StateWin
               ELSE IF id % 2 = 1 THEN StateWin ELSE StateLost,
     amount |-> 1000, status |-> StatusProcessed]

InitStarved ==
    /\ \E k \in 0..MaxPairs :
          /\ transactions = { StarvedRow(i) : i \in 1..(2 + 2 * k) }
          /\ users = [SeedUsers EXCEPT
                          ![1] = [balance |-> SeedUsers[1].balance, version |-> 2],
                          ![2] = [balance |-> SeedUsers[2].balance, version |-> 2 * k]]
          /\ nextID = 3 + 2 * k
    /\ userLock = [u \in UserIDs |-> NoOne]
    /\ pc = [p \in Calls \cup Instances |-> IF p \in Calls THEN "validate" ELSE "idle"]
    /\ req = [p \in Calls |-> RequestSeq[1]]
    /\ tx = [p \in Calls |-> NoTx]
    /\ resp = [p \in Calls |-> NoResp]
    /\ http = [p \in Calls |-> 0]
    /\ batch = [s \in Instances |-> <<>>]
    /\ idx = [s \in Instances |-> 0]
    /\ unit = [s \in Instances |-> NoUnit]
    /\ cancelledCount = [s \in Instances |-> 0]
    /\ report = [s \in Instances |-> NoReport]
    /\ ctx = "live"
    /\ stopChan = "open"
    /\ main = "serving"

SpecStarved == InitStarved /\ [][NextSelect]_vars /\ WF_vars(NextSelect)


\* The HTTP adapter alone, on every outcome ParseSourceType and
\* ProcessTransaction hand to it.
Outcomes ==
    { [status |-> st, balance |-> StringFixed2(SeedUsers[1].balance), err |-> ErrNone] :
          st \in {"success", "already_processed"} }
    \cup { [status |-> "", balance |-> "", err |-> e] :
               e \in {ErrInsufficientBalance, ErrInvalidAmount, ErrInvalidState,
                      ErrInvalidSourceType, ErrUserNotFound, ErrTransactionNotFound,
                      ErrDuplicateTransaction, ErrContextCanceled,
                      errBeginTransaction, errCommitTransaction} }

InitAdapter ==
    /\ users = SeedUsers
    /\ transactions = {}
    /\ nextID = 1
    /\ userLock = [u \in UserIDs |-> NoOne]
    /\ pc = [p \in Calls \cup Instances |-> IF p \in Calls THEN "done" ELSE "idle"]
    /\ req = [p \in Calls |-> RequestSeq[1]]
    /\ tx = [p \in Calls |-> NoTx]
    /\ resp \in [Calls -> Outcomes]
    /\ http = [p \in Calls |-> 0]
    /\ batch = [s \in Instances |-> <<>>]
    /\ idx = [s \in Instances |-> 0]
    /\ unit = [s \in Instances |-> NoUnit]
    /\ cancelledCount = [s \in Instances |-> 0]
    /\ report = [s \in Instances |-> NoReport]
    /\ ctx = "live"
    /\ stopChan = "open"
    /\ main = "serving"

NextAdapter == \E p \in Calls : Respond(p)

SpecAdapter == InitAdapter /\ [][NextAdapter]_vars


\* ---------------------------------------------------------------- helpers
Done(p) == pc[p] = "done"
AllDone == \A p \in Calls : Done(p)
Succeeded(p) == Done(p) /\ resp[p].status = "success"
AlreadyProcessed(p) == Done(p) /\ resp[p].status = "already_processed"
Failed(p) == Done(p) /\ resp[p].err # ErrNone

Keys == { r.transaction_id : r \in Requests }
\* The calls that carry one transaction_id for one user.
Group(k, u) == { p \in Calls : req[p].transaction_id = k /\ req[p].user_id = u }
RowsWithKey(k) == { t \in transactions : t.transaction_id = k }

\* The effect a row has on the balance of its owner.
Signed(t) == IF t.state = StateWin THEN t.amount ELSE 0 - t.amount

RECURSIVE SumSigned(_)
SumSigned(rows) ==
    IF rows = {} THEN 0
    ELSE LET t == CHOOSE r \in rows : TRUE
         IN  Signed(t) + SumSigned(rows \ {t})

RowsOf(u, status) == { t \in transactions : t.user_id = u /\ t.status = status }

\* ------------------------------------------------------------------ claims

\* The request passes the validation of ProcessTransaction.
WellFormed(r) ==
    /\ r.amount \in {T1000, T550}
    /\ r.state \in {StateWin, StateLost}
\* All the calls of a group carry the same, well-formed, request.
SameEvent(G) == \A p \in G : WellFormed(req[p]) /\ \A q \in G : req[q] = req[p]

\* C1: whenever N >= 2 calls that carry the same request (one transaction_id,
\* one user) have all returned and the transaction was applied for that user,
\* exactly one of them reports success, all the others report
\* already_processed and none reports an error.
C1_OneSuccessRestAlreadyProcessed ==
    \A k \in Keys : \A u \in UserIDs :
        LET G == Group(k, u)
        IN  ( /\ Cardinality(G) >= 2
              /\ SameEvent(G)
              /\ \A p \in G : Done(p)
              /\ \E t \in transactions : t.transaction_id = k /\ t.user_id = u )
            => /\ Cardinality({ p \in G : Succeeded(p) }) = 1
               /\ \A p \in G : Succeeded(p) \/ AlreadyProcessed(p)


\* C1: a state in which the loser of the race was turned away for its balance.
C1_Reached ==
    \E p \in Calls : \E q \in Calls \ {p} :
        /\ req[p] = req[q]
        /\ Succeeded(p)
        /\ Done(q) /\ resp[q].err = ErrInsufficientBalance

\* C2: of the calls that share one transaction_id and one user at most one
\* commits the balance change and the row; once they have all returned and any
\* of them returned without error, exactly one of them succeeded and exactly
\* one row with that transaction_id exists, owned by that user; and every
\* committed balance is the seeded balance changed once per processed row.
C2_ExactlyOneMutation ==
    /\ \A k \in Keys : Cardinality(RowsWithKey(k)) <= 1
    /\ \A k \in Keys : \A u \in UserIDs :
        LET G == Group(k, u)
            winners == { p \in G : Succeeded(p) }
        IN  /\ Cardinality(winners) <= 1
            /\ ( /\ \A p \in G : Done(p)
                 /\ \E p \in G : Succeeded(p) \/ AlreadyProcessed(p) )
               => /\ Cardinality(winners) = 1
                  /\ \E t \in RowsWithKey(k) : t.user_id = u
    /\ \A u \in UserIDs :
        users[u].balance = SeedUsers[u].balance + SumSigned(RowsOf(u, StatusProcessed))

C2_Witness ==
    \E p \in Calls : \E q \in Calls \ {p} :
        /\ req[p] = req[q]
        /\ Succeeded(p)
        /\ AlreadyProcessed(q)
        /\ tx[q].newBalance # 0
        /\ AllDone

\* C3: the committed balance of every user is never negative.
C3_BalanceNonNegative == \A u \in UserIDs : users[u].balance >= 0

C3_Witness ==
    /\ \E p \in Calls : Done(p) /\ resp[p].err = ErrInsufficientBalance
    /\ \E t \in transactions : t.status = StatusCancelled
    /\ \E u \in UserIDs : users[u].balance = 0

\* C4 as written: the signed amounts of the processed rows of a user plus the
\* amounts of its cancelled rows taken with the opposite sign make up the
\* change of its balance.
C4_ReversedWithOppositeSign ==
    \A u \in UserIDs :
        SumSigned(RowsOf(u, StatusProcessed)) - SumSigned(RowsOf(u, StatusCancelled))
            = users[u].balance - SeedUsers[u].balance

\* C4 as amended: every row of a user counts with its sign, and a cancelled
\* row counts a second time with the opposite sign (so it contributes zero);
\* the sum is the change of the balance.
C4_SignedSumIsBalanceChange ==
    \A u \in UserIDs :
        LET all == { t \in transactions : t.user_id = u }
        IN  SumSigned(all) - SumSigned(RowsOf(u, StatusCancelled))
                = users[u].balance - SeedUsers[u].balance

C4_Witness ==
    \E u \in UserIDs :
        /\ RowsOf(u, StatusCancelled) # {}
        /\ RowsOf(u, StatusProcessed) # {}


\* C5: when every call is a win of 10.00 for one user, some sharing a
\* transaction_id, then once all have returned the number of success
\* responses is the number of distinct transaction_ids, the number of
\* already_processed responses is the number of calls minus that, and (no row
\* having been cancelled) the balance is the seeded balance plus 10.00 per
\* distinct transaction_id.
C5_MixedTransactionIDs ==
    \A u \in UserIDs :
        ( /\ AllDone
          /\ \A p \in Calls : req[p].user_id = u /\ req[p].state = StateWin
                              /\ req[p].amount = T1000 )
        => LET distinct == Cardinality({ req[p].transaction_id : p \in Calls })
           IN  /\ Cardinality({ p \in Calls : Succeeded(p) }) = distinct
               /\ Cardinality({ p \in Calls : AlreadyProcessed(p) }) = NumCalls - distinct
               /\ RowsOf(u, StatusCancelled) = {}
                  => users[u].balance = SeedUsers[u].balance + 1000 * distinct

C5_Witness ==
    /\ AllDone
    /\ \A p \in Calls : req[p].user_id = 1 /\ req[p].state = StateWin /\ req[p].amount = T1000
    /\ Cardinality({ req[p].transaction_id : p \in Calls }) = 2
    /\ Cardinality({ p \in Calls : AlreadyProcessed(p) }) = NumCalls - 2
    /\ RowsOf(1, StatusCancelled) = {}
    /\ users[1].balance = 3000

\* C6: when N >= 2 calls carry the same request, no other call is for that
\* user, no row of the user has been cancelled and the transaction was
\* applied, then once they have all returned every one of them reports, without
\* error, the balance the applied transaction produced.
C6_AllReportPostMutationBalance ==
    \A u \in UserIDs : \A k \in Keys :
        LET G == Group(k, u)
        IN  ( /\ \A p \in Calls : req[p].user_id = u => req[p].transaction_id = k
              /\ RowsOf(u, StatusCancelled) = {}
              /\ Cardinality(G) >= 2
              /\ SameEvent(G)
              /\ \A p \in G : Done(p)
              /\ \E t \in RowsWithKey(k) : t.user_id = u )
            => \A p \in G : \E t \in RowsWithKey(k) :
                   /\ resp[p].err = ErrNone
                   /\ resp[p].balance =
                          StringFixed2(IF t.state = StateWin
                                       THEN SeedUsers[u].balance + t.amount
                                       ELSE SeedUsers[u].balance - t.amount)

\* C6, the part that holds: when all the calls for a user carry one
\* transaction_id and no row of that user has been cancelled, every call that
\* does report already_processed reports the balance the one applied
\* transaction produced, which is also the balance the successful call reports.
C6_SameBalanceReported ==
    \A u \in UserIDs : \A k \in Keys :
        ( /\ \A p \in Calls : req[p].user_id = u => req[p].transaction_id = k
          /\ RowsOf(u, StatusCancelled) = {} )
        => \A p \in Group(k, u) :
               AlreadyProcessed(p)
               => /\ \E t \in RowsWithKey(k) :
                         resp[p].balance =
                             StringFixed2(IF t.state = StateWin
                                          THEN SeedUsers[u].balance + t.amount
                                          ELSE SeedUsers[u].balance - t.amount)
                  /\ \A q \in Group(k, u) :
                         (Succeeded(q) \/ AlreadyProcessed(q))
                         => resp[q].balance = resp[p].balance

\* C7: a call whose new balance would be negative returns
\* ErrInsufficientBalance in the step that read the balance, and that step
\* leaves the users rows (balance, version), the transactions rows and the
\* locks as they were and leaves no uncommitted write behind.
C7_InsufficientBalanceNoWrite ==
    [][ \A p \in Calls :
          ( /\ pc[p] = "getUserForUpdate"
            /\ pc'[p] # pc[p]
            /\ req[p].user_id \in UserIDs
            /\ (IF tx[p].state = StateWin
                THEN users[req[p].user_id].balance + tx[p].amount
                ELSE users[req[p].user_id].balance - tx[p].amount) < 0 )
          => /\ pc'[p] = "done"
             /\ resp'[p] = [status |-> "", balance |-> "", err |-> ErrInsufficientBalance]
             /\ users' = users
             /\ transactions' = transactions
             /\ userLock' = userLock
             /\ ~tx'[p].updated
             /\ tx'[p].inserted = NoRecord ]_vars

C7_Witness ==
    \E p \in Calls :
        /\ Done(p)
        /\ resp[p].err = ErrInsufficientBalance
        /\ tx[p].state = StateLost
        /\ tx[p].balance - tx[p].amount < 0
        /\ ~tx[p].updated
        /\ users[req[p].user_id].balance = tx[p].balance
        /\ \A r \in transactions : r.transaction_id # req[p].transaction_id

\* C8: a call that looks up its transaction_id and finds the row of another
\* user returns ErrDuplicateTransaction in that step, which changes no users
\* row and no transactions row; and no step ever changes the user or the
\* transaction_id of a committed row.
C8_DuplicateForOtherUser ==
    [][ /\ \A p \in Calls :
              ( /\ pc[p] = "getTransaction"
                /\ pc'[p] # pc[p]
                /\ \E t \in transactions : /\ t.transaction_id = req[p].transaction_id
                                           /\ t.user_id # req[p].user_id )
              => /\ pc'[p] = "done"
                 /\ resp'[p] = [status |-> "", balance |-> "", err |-> ErrDuplicateTransaction]
                 /\ users' = users
                 /\ transactions' = transactions
        /\ \A t \in transactions :
              \E n \in transactions' : /\ n.id = t.id
                                       /\ n.transaction_id = t.transaction_id
                                       /\ n.user_id = t.user_id ]_vars

C8_Witness ==
    \E p \in Calls : \E t \in transactions :
        /\ Done(p)
        /\ resp[p].err = ErrDuplicateTransaction
        /\ t.transaction_id = req[p].transaction_id
        /\ t.user_id # req[p].user_id
        /\ tx[p].balance = 0
        /\ users[req[p].user_id] = SeedUsers[req[p].user_id]

\* C9: a call that looks up its transaction_id and finds the row of its own
\* user goes on to read the balance and returns already_processed with the
\* committed balance of that moment; neither step changes a users row, a
\* transactions row, the id sequence or a lock.
C9_IdempotentReplay ==
    [][ \A p \in Calls :
          /\ ( /\ pc[p] = "getTransaction"
               /\ pc'[p] # pc[p]
               /\ \E t \in transactions : /\ t.transaction_id = req[p].transaction_id
                                          /\ t.user_id = req[p].user_id )
             => /\ pc'[p] = "getBalance"
                /\ storeVars' = storeVars
          /\ ( pc[p] = "getBalance" /\ pc'[p] # pc[p] )
             => /\ pc'[p] = "done"
                /\ resp'[p] = [status |-> "already_processed",
                               balance |-> StringFixed2(users[req[p].user_id].balance),
                               err |-> ErrNone]
                /\ storeVars' = storeVars ]_vars

\* Two calls replayed a transaction one after the other.
C9_Witness ==
    \E p \in Calls : \E q \in Calls \ {p} : \E r \in Calls \ {p, q} :
        /\ req[p] = req[q] /\ req[q] = req[r]
        /\ Succeeded(p)
        /\ AlreadyProcessed(q) /\ tx[q].balance = 0
        /\ AlreadyProcessed(r) /\ tx[r].balance = 0
        /\ Cardinality(transactions) = 1

\* C10: a call whose amount is no positive decimal returns ErrInvalidAmount
\* and a call with a positive amount whose state is neither win nor lost
\* returns ErrInvalidState, in its first step, which opens no transaction,
\* takes no lock and changes nothing in the store; every other call goes on
\* to the lookup.
C10_ValidationBeforeStore ==
    [][ \A p \in Calls :
          ( pc[p] = "validate" /\ pc'[p] # pc[p] )
          => /\ storeVars' = storeVars
             /\ tx'[p].inserted = NoRecord /\ ~tx'[p].updated
             /\ IF req[p].amount \in {TZero, TNegative, TGarbage, <<>>}
                THEN /\ pc'[p] = "done"
                     /\ resp'[p] = [status |-> "", balance |-> "", err |-> ErrInvalidAmount]
                     /\ tx' = tx
                ELSE IF req[p].state \notin {"win", "lost"}
                THEN /\ pc'[p] = "done"
                     /\ resp'[p] = [status |-> "", balance |-> "", err |-> ErrInvalidState]
                     /\ tx' = tx
                ELSE /\ pc'[p] = "getTransaction"
                     /\ resp'[p] = resp[p]
                     /\ tx'[p].amount = (IF req[p].amount = T1000 THEN 1000 ELSE 550) ]_vars

C10_Witness ==
    \E p \in Calls : \E q \in Calls \ {p} :
        /\ Done(p) /\ resp[p].err = ErrInvalidAmount /\ req[p].amount = TZero
        /\ Done(q) /\ resp[q].err = ErrInvalidState
        /\ tx[p] = NoTx /\ tx[q] = NoTx
        /\ storeVars = <<SeedUsers, {}, 1, [u \in UserIDs |-> NoOne]>>

\* The row with this id in a set of rows (NoRecord when there is none).
RowIn(rows, id) ==
    IF \E n \in rows : n.id = id THEN CHOOSE n \in rows : n.id = id ELSE NoRecord

\* The step turns the processed row t into a cancelled one.
Reverses(t) ==
    /\ t.status = StatusProcessed
    /\ RowIn(transactions', t.id) # NoRecord
    /\ RowIn(transactions', t.id).status = StatusCancelled

\* C11: in every step every committed row keeps its status or goes from
\* processed to cancelled; a cancelled row stays cancelled, and a row has no
\* status other than these two.
C11_StatusOnlyProcessedToCancelled ==
    [][ \A t \in transactions :
          LET n == RowIn(transactions', t.id)
          IN  /\ n # NoRecord
              /\ n.status \in {StatusProcessed, StatusCancelled}
              /\ t.status = StatusCancelled => n.status = StatusCancelled
              /\ n.status # t.status
                 => t.status = StatusProcessed /\ n.status = StatusCancelled ]_vars

\* A row was cancelled and a call replayed its transaction_id afterwards.
C11_Witness ==
    \E t \in transactions : \E p \in Calls :
        /\ t.status = StatusCancelled
        /\ AlreadyProcessed(p)
        /\ req[p].transaction_id = t.transaction_id
        /\ resp[p].balance = StringFixed2(SeedUsers[t.user_id].balance)
        /\ users[t.user_id].version = 2

\* C12: in every reachable state no two committed rows carry the same
\* transaction_id, whoever their users are, and no two carry the same id.
C12_TransactionIDUnique ==
    \A a \in transactions : \A b \in transactions :
        (a.transaction_id = b.transaction_id \/ a.id = b.id) => a = b

\* Two calls for different users raced on one transaction_id up to the insert.
C12_Witness ==
    \E p \in Calls : \E q \in Calls \ {p} :
        /\ req[p].transaction_id = req[q].transaction_id
        /\ req[p].user_id # req[q].user_id
        /\ Succeeded(p)
        /\ Done(q) /\ resp[q].err = ErrDuplicateTransaction
        /\ tx[q].newBalance # 0

\* C13: a row appears only in the commit of a successful call, as the row
\* that call built, with a fresh id and status processed, one row per step;
\* afterwards no step removes it or changes its id, transaction_id, user,
\* state or amount (a cancellation changes the status alone).
C13_RecordCreatedOnceThenFixed ==
    [][ /\ \A t \in transactions :
              LET n == RowIn(transactions', t.id)
              IN  /\ n # NoRecord
                  /\ [n EXCEPT !.status = t.status] = t
        /\ \A n \in transactions' :
              RowIn(transactions, n.id) = NoRecord
              => /\ n.status = StatusProcessed
                 /\ \A t \in transactions : t.transaction_id # n.transaction_id
                 /\ \E p \in Calls : /\ pc[p] = "commit"
                                     /\ pc'[p] = "done"
                                     /\ resp'[p].status = "success"
                                     /\ n = NewTransaction(p, n.id)
        /\ Cardinality(transactions') <= Cardinality(transactions) + 1 ]_vars

\* A row was cancelled, and a replay that asked for another amount left the
\* amount of the row alone.
C13_Witness ==
    \E t \in transactions : \E p \in Calls :
        /\ t.status = StatusCancelled
        /\ AlreadyProcessed(p)
        /\ req[p].transaction_id = t.transaction_id
        /\ tx[p].amount # t.amount
        /\ t.amount = 1000

\* C14: the step that turns a row to cancelled writes, in that same step, the
\* balance of the row's user: the committed balance (the one the unit read
\* under the lock) minus the amount for a win row, plus the amount for a lost
\* row; the version goes up by one and no other user changes.
C14_ReversalArithmetic ==
    [][ \A t \in transactions :
          Reverses(t)
          => LET u == t.user_id
             IN  /\ \E s \in Sweepers : /\ pc[s] = "cancelTransaction"
                                        /\ unit[s].lockedID = t.id
                                        /\ unit[s].balance = users[u].balance
                 /\ t.state = StateWin => users'[u].balance = users[u].balance - t.amount
                 /\ t.state = StateLost => users'[u].balance = users[u].balance + t.amount
                 /\ users'[u].version = users[u].version + 1
                 /\ \A o \in UserIDs \ {u} : users'[o] = users[o] ]_vars

\* A win row and a lost row of one user have both been reversed.
C14_Witness ==
    \E a \in transactions : \E b \in transactions :
        /\ a.status = StatusCancelled /\ a.state = StateWin
        /\ b.status = StatusCancelled /\ b.state = StateLost
        /\ a.user_id = b.user_id
        /\ users[a.user_id].balance = SeedUsers[a.user_id].balance

\* The reversal of the candidate of job s would make the balance negative.
WouldBeNegative(s) ==
    /\ pc[s] = "getUserForUpdate"
    /\ LET t == batch[s][idx[s]]
       IN  (IF t.state = StateWin THEN users[t.user_id].balance - t.amount
            ELSE users[t.user_id].balance + t.amount) < 0

\* C15: when the reversal of a candidate would make the balance negative, the
\* step the job takes on it changes no users row and no transactions row (the
\* row stays processed), keeps no lock, counts no cancellation and raises no
\* error: the loop goes on, or the run ends with nil.
C15_RefusedReversalIsSkipped ==
    [][ \A s \in Sweepers :
          ( WouldBeNegative(s) /\ pc'[s] # pc[s] )
          => /\ users' = users
             /\ transactions' = transactions
             /\ RowByID(batch[s][idx[s]].id).status = StatusProcessed
             /\ userLock' = userLock
             /\ unit'[s] = NoUnit
             /\ \/ /\ pc'[s] = "lockTransaction"
                   /\ idx'[s] = idx[s] + 1
                   /\ cancelledCount'[s] = cancelledCount[s]
                   /\ report'[s] = report[s]
                \/ /\ pc'[s] = "idle"
                   /\ idx[s] = Len(batch[s])
                   /\ report'[s] = Report(ErrNone, TRUE, Len(batch[s]), cancelledCount[s]) ]_vars

\* A run has ended whose only candidate, a win of 10.00 of a user left with
\* 5.00, was refused.
C15_Witness ==
    \E s \in Sweepers : \E t \in transactions :
        /\ pc[s] = "idle"
        /\ report[s] = Report(ErrNone, TRUE, 1, 0)
        /\ t.status = StatusProcessed /\ t.id % 2 = 1 /\ t.state = StateWin
        /\ users[t.user_id].balance = 500
        /\ \A o \in transactions : o.status = StatusProcessed
        /\ ctx = "live"

\* The odd-numbered processed rows, which the job may select.
OddProcessed == { t \in transactions : t.id % 2 = 1 /\ t.status = StatusProcessed }

\* C16: after every step every cancelled row has an odd id; a run selects
\* min(10, number of odd processed rows) candidates, all of them odd and
\* processed, in descending order of id, and every odd processed row left
\* out has a lower id than every candidate; a row is only ever cancelled as
\* the current candidate of a run, so a run cancels at most 10 rows.
C16_OddProcessedAtMostTen ==
    [][ /\ \A t \in transactions' : t.status = StatusCancelled => t.id % 2 = 1
        /\ \A s \in Sweepers :
              ( pc[s] = "idle" /\ pc'[s] = "lockTransaction" )
              => LET b == batch'[s]
                     chosen == { b[i] : i \in 1..Len(b) }
                 IN  /\ Len(b) <= 10
                     /\ Len(b) = IF Cardinality(OddProcessed) < 10
                                 THEN Cardinality(OddProcessed) ELSE 10
                     /\ chosen \subseteq OddProcessed
                     /\ \A i \in 1..Len(b) : \A j \in 1..Len(b) : i < j => b[i].id > b[j].id
                     /\ \A t \in OddProcessed \ chosen : \A c \in chosen : t.id < c.id
        /\ \A t \in transactions :
              Reverses(t)
              => \E s \in Sweepers : /\ idx[s] \in 1..Len(batch[s])
                                     /\ idx[s] <= 10
                                     /\ batch[s][idx[s]].id = t.id
        /\ \A s \in Sweepers : report'[s].requested <= 10 /\ report'[s].cancelled <= 10 ]_vars

\* A run selected 10 of more than 10 odd processed rows and cancelled the 10.
C16_Witness ==
    \E s \in Sweepers :
        /\ pc[s] = "idle"
        /\ report[s] = Report(ErrNone, TRUE, 10, 10)
        /\ Cardinality(OddProcessed) >= 2
        /\ \A t \in OddProcessed : \A c \in transactions :
               c.status = StatusCancelled => t.id < c.id

\* The positions of a job inside a run.
RunPCs == {"lockTransaction", "getUserForUpdate", "cancelTransaction"}
\* The step is one of job s.
StepOf(s) == pc'[s] # pc[s] \/ idx'[s] # idx[s] \/ report'[s] # report[s]
\* The candidate job s is working on.
Candidate(s) == batch[s][idx[s]]

\* C17: a run ends only after its last candidate, returning nil with its
\* counts, or at the loop's check of a cancelled context; any other step of a
\* run stays with the candidate or goes on to the next one and returns
\* nothing.  A step of the run that does not reverse its candidate (a failed
\* unit among them) changes no users row and no transactions row, so the
\* reversals committed before it persist, and it keeps no lock.
C17_StoreErrorIsolated ==
    [][ \A s \in Sweepers :
          /\ ( pc[s] \in RunPCs /\ pc'[s] = "idle" )
             => \/ /\ idx[s] = Len(batch[s])
                   /\ report'[s].err = ErrNone
                   /\ report'[s].logged
                   /\ report'[s].requested = Len(batch[s])
                \/ /\ ctx = "done"
                   /\ pc[s] = "lockTransaction"
                   /\ report'[s].err = ErrContextCanceled
          /\ ( pc[s] \in RunPCs /\ pc'[s] \in RunPCs )
             => /\ report'[s] = report[s]
                /\ batch'[s] = batch[s]
                /\ \/ idx'[s] = idx[s]
                   \/ idx'[s] = idx[s] + 1 /\ pc'[s] = "lockTransaction"
          /\ ( pc[s] \in RunPCs /\ StepOf(s) /\ ~Reverses(RowByID(Candidate(s).id)) )
             => /\ users' = users
                /\ transactions' = transactions
                /\ idx'[s] # idx[s] => \A u \in UserIDs : userLock'[u] # s ]_vars

\* A run of two candidates reversed the first and, with no signal, left the
\* second, whose reversal the balance allowed, processed: its unit failed.
C17_Witness ==
    \E s \in Sweepers : \E a \in transactions : \E b \in transactions :
        /\ pc[s] = "idle"
        /\ ctx = "live"
        /\ report[s] = Report(ErrNone, TRUE, 2, 1)
        /\ a.id > b.id
        /\ a.status = StatusCancelled
        /\ b.status = StatusProcessed /\ b.id % 2 = 1 /\ b.state = StateWin
        /\ users[b.user_id].balance >= b.amount
        /\ \A p \in Calls : Done(p)

\* Every balance is the seeded one changed by the processed rows of its user.
Accounted(us, rows) ==
    \A u \in UserIDs :
        us[u].balance = SeedUsers[u].balance
            + SumSigned({ t \in rows : t.user_id = u /\ t.status = StatusProcessed })

\* C18: when the context is cancelled the step at the head of the loop ends
\* the run with ctx.Err(), opening no unit and changing nothing in the store;
\* and after every step the committed balances and statuses agree: a row
\* whose effect is in the balance is processed, one whose effect was taken
\* out is cancelled.
C18_StopsBetweenCandidates ==
    [][ /\ \A s \in Sweepers :
              ( pc[s] = "lockTransaction" /\ ctx = "done" /\ StepOf(s) )
              => /\ pc'[s] = "idle"
                 /\ report'[s].err = ErrContextCanceled
                 /\ unit'[s] = NoUnit
                 /\ storeVars' = storeVars
        /\ Accounted(users', transactions') ]_vars

\* A run reversed a candidate, was stopped by the context, and left behind a
\* candidate it could have reversed.
C18_Witness ==
    \E s \in Sweepers : \E a \in transactions : \E b \in transactions :
        /\ pc[s] \in {"idle", "exited"}
        /\ report[s].err = ErrContextCanceled
        /\ a.status = StatusCancelled
        /\ b.status = StatusProcessed /\ b.id % 2 = 1 /\ b.id < a.id
        /\ b.state = StateWin /\ users[b.user_id].balance >= b.amount

\* The candidates of a run that are cancelled in rows.
ReversedOf(b, rows) ==
    { i \in 1..Len(b) : \E t \in rows : t.id = b[i].id /\ t.status = StatusCancelled }

\* C19: every run that went into its loop ends by reporting its counts, the
\* count of cancellations being the number of its candidates whose reversal
\* committed, also when the context was cancelled; and it returns no error
\* unless the context was cancelled.
C19_ReturnsCounts ==
    [][ \A s \in Sweepers :
          ( pc[s] \in RunPCs /\ pc'[s] = "idle" )
          => /\ report'[s].logged
             /\ report'[s].cancelled = Cardinality(ReversedOf(batch[s], transactions'))
             /\ ctx = "live" => report'[s].err = ErrNone ]_vars

\* C20: once the context is cancelled, a unit that holds its candidate's row
\* still runs to its end: the step after the lock of the user leads to the
\* write of the status (or to the refusal for a negative balance), and the
\* last step reverses the candidate.
C20_InFlightUnitCompletes ==
    [][ \A s \in Sweepers :
          ( ctx = "done" /\ StepOf(s) )
          => /\ pc[s] = "getUserForUpdate"
                => WouldBeNegative(s) \/ pc'[s] = "cancelTransaction"
             /\ pc[s] = "cancelTransaction"
                => Reverses(RowByID(Candidate(s).id)) ]_vars

\* C20, the part that holds: Stop returns only after the worker has left its
\* loop, which it does between runs, with no unit open.
C20_StopWaitsForWorker ==
    /\ main = "stopped" => \A s \in Sweepers : pc[s] = "exited"
    /\ \A s \in Sweepers :
          pc[s] = "exited" => unit[s] = NoUnit /\ batch[s] = <<>>
                              /\ \A u \in UserIDs : userLock[u] # s

\* C21: the adapter answers a first application with 201 and a replay with
\* 200; it answers InvalidAmount, InvalidState, InvalidSourceType and
\* InsufficientBalance with 400, a duplicate of another owner with 409,
\* UserNotFound and TransactionNotFound with 404 and every other error
\* with 500.
C21_OutcomeToStatusCode ==
    \A p \in Calls :
        pc[p] = "responded" =>
            LET o == resp[p]
            IN  /\ (o.err = ErrNone /\ o.status = "success") <=> http[p] = 201
                /\ (o.err = ErrNone /\ o.status = "already_processed") <=> http[p] = 200
                /\ o.err \in {ErrInvalidAmount, ErrInvalidState, ErrInvalidSourceType,
                               ErrInsufficientBalance} <=> http[p] = 400
                /\ o.err = ErrDuplicateTransaction <=> http[p] = 409
                /\ o.err \in {ErrUserNotFound, ErrTransactionNotFound} <=> http[p] = 404
                /\ o.err \notin {ErrNone, ErrInvalidAmount, ErrInvalidState,
                                  ErrInvalidSourceType, ErrInsufficientBalance,
                                  ErrDuplicateTransaction, ErrUserNotFound,
                                  ErrTransactionNotFound} <=> http[p] = 500

C21_Witness ==
    \E p \in Calls : \E q \in Calls : \E r \in Calls :
        /\ pc[p] = "responded" /\ resp[p].err = ErrDuplicateTransaction /\ http[p] = 409
        /\ pc[q] = "responded" /\ resp[q].err = errCommitTransaction /\ http[q] = 500
        /\ pc[r] = "responded" /\ resp[r].status = "already_processed" /\ http[r] = 200

\* C22: a call for a user that has no row, with a transaction_id no row
\* carries, fails with ErrUserNotFound; it writes no balance and inserts no
\* row.
C22_UserNotFound ==
    /\ [](\A p \in Calls :
            (Done(p) /\ WellFormed(req[p]) /\ req[p].user_id \notin UserIDs
                /\ RowsWithKey(req[p].transaction_id) = {})
                => resp[p] = [status |-> "", balance |-> "", err |-> ErrUserNotFound])
    /\ [](DOMAIN users = UserIDs /\ \A t \in transactions : t.user_id \in UserIDs)
    /\ [][ \A p \in Calls :
            (req[p].user_id \notin UserIDs /\ pc'[p] # pc[p])
                => /\ pc'[p] \in {"getTransaction", "getUserForUpdate", "done"}
                   /\ users' = users /\ transactions' = transactions /\ nextID' = nextID
                   /\ userLock' = userLock
                   /\ ~tx'[p].updated /\ tx'[p].inserted = NoRecord ]_vars

C22_Witness ==
    \E p \in Calls :
        /\ Done(p) /\ req[p].user_id = MissingUser
        /\ resp[p].err = ErrUserNotFound
        /\ RowsWithKey(req[p].transaction_id) = {}
        /\ transactions # {}

\* C23: when the insert fails on the unique transaction_id because a
\* concurrent call committed the key first, the unit is rolled back (its
\* balance write is dropped) and the record is read again outside the unit:
\* it is always found, and when its owner is the caller the call returns
\* already_processed with the committed balance, never an error.
C23_LostInsertRaceIsReplay ==
    /\ [](\A p \in Calls :
            pc[p] \in {"raceGetTransaction", "raceGetBalance"}
                => /\ GetTransaction(req[p].transaction_id) # NoRecord
                   /\ ~tx[p].updated /\ tx[p].inserted = NoRecord
                   /\ \A u \in UserIDs : userLock[u] # p)
    /\ [](\A p \in Calls : resp[p].err \notin {errDuplicateInsertRace, ErrTransactionNotFound})
    /\ [][ \A p \in Calls :
            /\ (pc[p] = "insertTransaction" /\ pc'[p] # pc[p]
                    /\ GetTransaction(req[p].transaction_id) # NoRecord)
                  => /\ pc'[p] = "raceGetTransaction"
                     /\ users' = users /\ transactions' = transactions
                     /\ userLock'[req[p].user_id] = NoOne
            /\ (pc[p] = "raceGetTransaction" /\ pc'[p] # pc[p]
                    /\ GetTransaction(req[p].transaction_id).user_id = req[p].user_id)
                  => pc'[p] = "raceGetBalance" /\ resp'[p] = resp[p]
            /\ (pc[p] = "raceGetBalance" /\ pc'[p] # pc[p])
                  => /\ pc'[p] = "done"
                     /\ resp'[p] = [status |-> "already_processed",
                                     balance |-> StringFixed2(users[req[p].user_id].balance),
                                     err |-> ErrNone]
                     /\ users' = users /\ transactions' = transactions ]_vars

C23_Witness ==
    \E p \in Calls : \E q \in Calls :
        /\ p # q /\ req[p] = req[q]
        /\ Succeeded(q)
        /\ AlreadyProcessed(p) /\ tx[p].newBalance # tx[p].balance
        /\ resp[p].balance = resp[q].balance
        /\ Cardinality(RowsWithKey(req[p].transaction_id)) = 1

\* C24: of two concurrent calls that carry one transaction_id for different
\* existing users, each affordable, exactly one succeeds and the other
\* fails with ErrDuplicateTransaction; one row carries the key, and the
\* balance and version of the loser's account are what they were before.
C24_OwnerConflict ==
    \A p \in Calls : \A q \in Calls :
        (/\ req[p].transaction_id = req[q].transaction_id
         /\ req[p].user_id # req[q].user_id
         /\ {req[p].user_id, req[q].user_id} \subseteq UserIDs
         /\ WellFormed(req[p]) /\ WellFormed(req[q])
         /\ \A r \in Calls \ {p, q} :
                /\ req[r].transaction_id # req[p].transaction_id
                /\ ~WellFormed(req[r]) \/ req[r].user_id \notin UserIDs
         /\ Done(p) /\ Done(q))
            => /\ Succeeded(p) # Succeeded(q)
               /\ Succeeded(p)
                    => /\ resp[q] = [status |-> "", balance |-> "",
                                     err |-> ErrDuplicateTransaction]
                       /\ \E t \in transactions :
                              /\ RowsWithKey(req[p].transaction_id) = {t}
                              /\ t.user_id = req[p].user_id
                       /\ users[req[q].user_id] = SeedUsers[req[q].user_id]

C24_Witness ==
    \E p \in Calls : \E q \in Calls :
        /\ req[p].transaction_id = req[q].transaction_id
        /\ req[p].user_id = 1 /\ req[q].user_id = 2
        /\ \A r \in Calls \ {p, q} : req[r].user_id \notin UserIDs
        /\ Succeeded(p)
        /\ Done(q) /\ resp[q].err = ErrDuplicateTransaction
        /\ tx[q].newBalance = SeedUsers[2].balance + 1000
        /\ users[2] = SeedUsers[2]

\* The step is one of instance s of the cancellation job.
StepOfInstance(s) ==
    pc'[s] # pc[s] \/ idx'[s] # idx[s] \/ report'[s] # report[s] \/ unit'[s] # unit[s]

\* C25: with several runs of the job at once no row is locked by two units,
\* every step of a run that changes the store turns its one candidate from
\* processed to cancelled and applies the reversal of that row to the
\* balance of its owner once, so the balances stay the seed plus the rows
\* still processed; a candidate that another unit has locked, or that is no
\* longer processed, is passed over with no error and no change.
C25_ReversedAtMostOnce ==
    /\ [](\A s \in Instances : \A r \in Instances \ {s} :
            unit[s].lockedID # 0 => unit[r].lockedID # unit[s].lockedID)
    /\ [](\A u \in UserIDs :
            users[u].balance = SeedUsers[u].balance + SumSigned(RowsOf(u, StatusProcessed)))
    /\ [][ \A s \in Instances :
            StepOfInstance(s) =>
              /\ (pc[s] = "lockTransaction"
                     /\ (\/ Candidate(s).id \in LockedRows
                         \/ RowIn(transactions, Candidate(s).id).status # StatusProcessed))
                    => /\ users' = users /\ transactions' = transactions
                       /\ userLock' = userLock
                       /\ unit'[s] = NoUnit
                       /\ idx'[s] = idx[s] + 1 \/ pc'[s] = "idle"
                       /\ report'[s].err = ErrNone
                       /\ pc'[s] = "lockTransaction" => cancelledCount'[s] = cancelledCount[s]
                       /\ pc'[s] = "idle" => report'[s].cancelled = cancelledCount[s]
              /\ (users' # users \/ transactions' # transactions)
                    => LET t == RowIn(transactions, Candidate(s).id)
                       IN  /\ pc[s] = "cancelTransaction"
                           /\ t.status = StatusProcessed
                           /\ transactions' = (transactions \ {t})
                                   \cup {[t EXCEPT !.status = StatusCancelled]}
                           /\ users' = [users EXCEPT ![t.user_id] =
                                   [balance |-> users[t.user_id].balance - Signed(t),
                                    version |-> users[t.user_id].version + 1]] ]_vars

C25_Witness ==
    \E s \in Instances : \E r \in Instances \ {s} :
        /\ pc[s] = "cancelTransaction"
        /\ Len(batch[r]) = 2 /\ idx[r] = 2
        /\ batch[r][1].id = unit[s].lockedID
        /\ cancelledCount[r] = 0
        /\ RowIn(transactions, unit[s].lockedID).status = StatusProcessed

\* C26: every step of a cancellation unit changes the balance of a user
\* exactly when it changes the status of a row, and then it is the owner's
\* balance and the candidate's status: a unit that fails or is rolled back
\* commits neither.  A unit that is about to run the conditional status
\* update holds the lock of its candidate and the candidate is still
\* processed, so no unit commits a balance write whose status update
\* affected zero rows.
C26_BalanceAndStatusTogether ==
    /\ [](\A s \in Sweepers :
            pc[s] = "cancelTransaction"
                => /\ unit[s].lockedID = Candidate(s).id
                   /\ RowIn(transactions, Candidate(s).id).status = StatusProcessed
                   /\ userLock[Candidate(s).user_id] = s)
    /\ [][ \A s \in Sweepers :
            (pc[s] \in RunPCs /\ StepOfInstance(s))
                => LET t == RowIn(transactions, Candidate(s).id)
                   IN  /\ users' # users <=> transactions' # transactions
                       /\ users' # users
                            => /\ Reverses(t)
                               /\ \A u \in UserIDs \ {t.user_id} : users'[u] = users[u]
                               /\ users'[t.user_id].balance # users[t.user_id].balance
                               /\ \A r \in transactions : r.id # t.id => r \in transactions' ]_vars

C26_Witness ==
    \E s \in Sweepers :
        /\ report[s].logged /\ report[s].requested = 2 /\ report[s].cancelled = 2
        /\ Cardinality({ t \in transactions : t.status = StatusCancelled }) = 1
        /\ Cardinality({ t \in transactions : t.status = StatusProcessed }) = 1
        /\ Accounted(users, transactions)

RECURSIVE SumAmount(_)
SumAmount(rows) ==
    IF rows = {} THEN 0
    ELSE LET t == CHOOSE r \in rows : TRUE
         IN  t.amount + SumAmount(rows \ {t})

\* The processed rows of user u with the given state.
Applied(u, state) == { t \in RowsOf(u, StatusProcessed) : t.state = state }

\* C27: in every committed state the balance of every user is the starting
\* balance plus the amounts of the user's processed wins minus the amounts of
\* the user's processed losses; cancelled rows count for nothing.
C27_BalanceIsSumOfApplied ==
    \A u \in UserIDs :
        users[u].balance =
            SeedUsers[u].balance + SumAmount(Applied(u, StateWin))
                                 - SumAmount(Applied(u, StateLost))

C27_Witness ==
    \E a \in transactions : \E b \in transactions :
        /\ a.user_id = b.user_id
        /\ a.state = StateWin /\ a.status = StatusProcessed
        /\ b.state = StateLost /\ b.status = StatusCancelled
        /\ users[a.user_id].version = 3
        /\ users[a.user_id].balance = SeedUsers[a.user_id].balance + a.amount

\* C28: instances of the cancellation job never block each other: no unit of
\* one instance waits for a lock that a unit of another instance holds.
C28_InstancesNeverBlock ==
    \A s \in Instances :
        pc[s] = "getUserForUpdate"
            => userLock[Candidate(s).user_id] \notin Instances \ {s}

\* The units that are past GetUserForUpdate of user u and not yet finished.
Holders(u) ==
    { p \in Calls : pc[p] \in {"insertTransaction", "commit"} /\ req[p].user_id = u }
        \cup { s \in Instances : pc[s] = "cancelTransaction" /\ Candidate(s).user_id = u }

\* The calls whose uncommitted insert of its transaction_id call p waits for.
InsertBlockers(p) ==
    { q \in Calls \ {p} : /\ pc[p] = "insertTransaction"
                          /\ tx[q].inserted # NoRecord
                          /\ tx[q].inserted.transaction_id = req[p].transaction_id }

\* C29, as stated: at most one unit holds the lock of a users row, and no
\* unit waits for a unit that works on another user.
C29_NeverWaitsAcrossAccounts ==
    /\ \A u \in UserIDs : Cardinality(Holders(u)) <= 1
    /\ \A p \in Calls : \A q \in InsertBlockers(p) : req[q].user_id = req[p].user_id

\* C29, amended: at most one unit holds the lock of a users row, and it is
\* the unit userLock names; a unit at GetUserForUpdate can go on as soon as
\* the lock of its own user is free, whatever the locks of other users; the
\* one other wait is that of an insert for an uncommitted insert of the same
\* transaction_id, which is always made for another user.
C29_AccountLockSerializes ==
    /\ \A u \in UserIDs :
          /\ Cardinality(Holders(u)) <= 1
          /\ \A h \in Holders(u) : userLock[u] = h
          /\ userLock[u] # NoOne => userLock[u] \in Holders(u)
    /\ \A p \in Calls :
          /\ (pc[p] = "getUserForUpdate"
                 /\ (req[p].user_id \in UserIDs => userLock[req[p].user_id] = NoOne))
                => ENABLED GetUserForUpdate(p)
          /\ (pc[p] = "insertTransaction" /\ InsertBlockers(p) = {})
                => ENABLED InsertTransaction(p)
          /\ \A q \in InsertBlockers(p) :
                req[q].user_id # req[p].user_id /\ pc[q] = "commit"
    /\ \A s \in Instances :
          (pc[s] = "getUserForUpdate" /\ userLock[Candidate(s).user_id] = NoOne)
              => ENABLED CancelGetUserForUpdate(s)

C29_Witness ==
    \E p \in Calls : \E q \in InsertBlockers(p) : \E r \in Calls :
        /\ userLock[req[p].user_id] = p /\ userLock[req[q].user_id] = q
        /\ pc[r] = "getUserForUpdate" /\ req[r].user_id = req[p].user_id

\* The units that process w waits for: the holder of the lock of a users
\* row, or the call with an uncommitted insert of the same transaction_id.
Blockers(w) ==
    IF w \in Calls
    THEN IF pc[w] = "getUserForUpdate" /\ req[w].user_id \in UserIDs
         THEN {userLock[req[w].user_id]} \ {NoOne}
         ELSE InsertBlockers(w)
    ELSE IF pc[w] = "getUserForUpdate"
         THEN {userLock[Candidate(w).user_id]} \ {NoOne}
         ELSE {}

\* The processes reached from those of S along at most n waits.
RECURSIVE WaitReach(_, _)
WaitReach(S, n) ==
    IF n = 0 THEN S
    ELSE WaitReach(S \cup UNION { Blockers(w) : w \in S }, n - 1)

\* C30: no process waits, directly or through other waiting processes, for
\* itself; and under fair scheduling every call returns and every unit of
\* the cancellation job that was started ends.
C30_NoDeadlock ==
    /\ [](\A w \in Calls \cup Instances :
            w \notin WaitReach(Blockers(w), NumCalls + 2))
    /\ <>AllDone
    /\ \A s \in Instances : (unit[s].lockedID # 0) ~> (unit[s].lockedID = 0)

C30_Witness ==
    \E w \in Calls \cup Instances : \E b \in Blockers(w) :
        /\ Blockers(b) # {}
        /\ Blockers(w) = {b}

\* C31: every balance a call reports is the committed balance of its user
\* in the state the call returns in, and is not negative; in particular the
\* balance that a unit wrote before it was rolled back is never reported,
\* and no committed balance is ever negative.
C31_OnlyCommittedBalancesVisible ==
    /\ [](\A u \in UserIDs : GetBalance(u) >= 0)
    /\ [][ \A p \in Calls :
            (resp'[p] # resp[p] /\ resp'[p].err = ErrNone)
                => /\ req[p].user_id \in UserIDs
                   /\ resp'[p].balance = StringFixed2(users'[req[p].user_id].balance)
                   /\ users'[req[p].user_id].balance >= 0
                   /\ ~tx'[p].updated ]_vars

C31_Witness ==
    \E p \in Calls :
        /\ AlreadyProcessed(p)
        /\ tx[p].newBalance > 0
        /\ resp[p].balance # StringFixed2(tx[p].newBalance)
        /\ resp[p].balance = StringFixed2(users[req[p].user_id].balance)

\* C32: a call returns success only in the step that commits its unit, with
\* the inserted row and the new balance in the committed state; a call that
\* returns an error (fn returned one, or the commit failed) has committed
\* nothing, its uncommitted writes and its lock are gone, and its response
\* carries no status; a call that has returned holds nothing.
C32_SuccessOnlyIfCommitted ==
    /\ [](\A p \in Calls :
            Done(p) => /\ ~tx[p].updated /\ tx[p].inserted = NoRecord
                       /\ \A u \in UserIDs : userLock[u] # p
                       /\ resp[p].err # ErrNone <=> resp[p].status = "")
    /\ [][ \A p \in Calls :
            /\ (resp'[p] # resp[p] /\ resp'[p].status = "success")
                  => /\ pc[p] = "commit"
                     /\ tx[p].inserted \in transactions' \ transactions
                     /\ users'[req[p].user_id] =
                            [balance |-> tx[p].newBalance,
                             version |-> users[req[p].user_id].version + 1]
                     /\ resp'[p].balance = StringFixed2(tx[p].newBalance)
            /\ (resp'[p] # resp[p] /\ resp'[p].err # ErrNone)
                  => /\ users' = users /\ transactions' = transactions
                     /\ resp'[p].status = "" /\ resp'[p].balance = ""
            /\ (pc[p] = "commit" /\ pc'[p] # pc[p])
                  => /\ pc'[p] = "done"
                     /\ resp'[p].err \in {ErrNone, errCommitTransaction}
                     /\ resp'[p].err = ErrNone <=> users' # users ]_vars

C32_Witness ==
    \E p \in Calls : \E q \in Calls :
        /\ Done(p) /\ resp[p].err = errCommitTransaction
        /\ Done(q) /\ resp[q].err = errInsertTransaction
        /\ tx[p].newBalance # users[req[p].user_id].balance
        /\ RowsWithKey(req[p].transaction_id) = {}

\* C33: in every committed state the version of a users row is its first
\* version plus the number of the user's rows plus the number of the user's
\* cancelled rows; a step changes a users row only by a committed balance
\* write, which raises the version by one, so the version never goes down
\* and the writes of units that were rolled back never show.
C33_VersionCountsBalanceWrites ==
    /\ [](\A u \in UserIDs :
            users[u].version = SeedUsers[u].version
                + Cardinality({ t \in transactions : t.user_id = u })
                + Cardinality(RowsOf(u, StatusCancelled)))
    /\ [][ \A u \in UserIDs :
            /\ users'[u].version \in {users[u].version, users[u].version + 1}
            /\ users'[u].version = users[u].version => users'[u] = users[u]
            /\ users'[u].version # users[u].version
                  => \/ \E p \in Calls : /\ pc[p] = "commit" /\ req[p].user_id = u
                                          /\ users'[u].balance = tx[p].newBalance
                     \/ \E s \in Sweepers : /\ pc[s] = "cancelTransaction"
                                             /\ Candidate(s).user_id = u
                                             /\ users'[u].balance = unit[s].newBalance ]_vars

C33_Witness ==
    \E p \in Calls : \E t \in transactions :
        /\ Done(p) /\ resp[p].err \in {errInsertTransaction, errCommitTransaction}
        /\ tx[p].newBalance # tx[p].balance
        /\ t.user_id = req[p].user_id /\ t.status = StatusCancelled
        /\ users[t.user_id].version = 3

\* C34: a call whose lookup finds a cancelled row with its transaction_id
\* and its user goes on to GetBalance and returns already_processed with the
\* committed (post-reversal) balance; neither step changes a users row, a
\* transactions row or the id sequence, so the event is not applied again.
C34_ReplayAfterReversal ==
    [][ \A p \in Calls :
          LET t == GetTransaction(req[p].transaction_id)
          IN  (/\ t # NoRecord /\ t.status = StatusCancelled
               /\ t.user_id = req[p].user_id
               /\ pc[p] \in {"getTransaction", "getBalance"}
               /\ pc'[p] # pc[p])
                => /\ users' = users /\ transactions' = transactions /\ nextID' = nextID
                   /\ tx'[p] = tx[p]
                   /\ pc[p] = "getTransaction" => pc'[p] = "getBalance"
                   /\ pc[p] = "getBalance"
                        => /\ pc'[p] = "done"
                           /\ resp'[p] = [status |-> "already_processed",
                                           balance |-> StringFixed2(users[t.user_id].balance),
                                           err |-> ErrNone] ]_vars

C34_Witness ==
    \E p \in Calls : \E t \in transactions :
        /\ transactions = {t}
        /\ t.status = StatusCancelled
        /\ t.transaction_id = req[p].transaction_id /\ t.user_id = req[p].user_id
        /\ AlreadyProcessed(p)
        /\ tx[p].newBalance = 0 /\ tx[p].balance = 0
        /\ users[t.user_id] = [balance |-> SeedUsers[t.user_id].balance, version |-> 2]
        /\ resp[p].balance = StringFixed2(SeedUsers[t.user_id].balance)

\* C39: a call whose lookup, or whose read after a lost insert race, finds a
\* row with its transaction_id and its user but another state or amount
\* than it asks for returns already_processed with the committed balance;
\* its steps from there change no users row and no transactions row, so the
\* stored state and amount and the balance stay as they were.
C39_ReplayWithOtherEvent ==
    [][ \A p \in Calls :
          LET t == GetTransaction(req[p].transaction_id)
          IN  (/\ t # NoRecord /\ t.user_id = req[p].user_id
               /\ t.state # tx[p].state \/ t.amount # tx[p].amount
               /\ pc[p] \in {"getTransaction", "getBalance", "raceGetTransaction",
                              "raceGetBalance"}
               /\ pc'[p] # pc[p])
                => /\ users' = users /\ transactions' = transactions /\ nextID' = nextID
                   /\ pc[p] = "getTransaction" => pc'[p] = "getBalance"
                   /\ pc[p] = "raceGetTransaction" => pc'[p] = "raceGetBalance"
                   /\ pc[p] \in {"getBalance", "raceGetBalance"}
                        => /\ pc'[p] = "done"
                           /\ resp'[p] = [status |-> "already_processed",
                                           balance |-> StringFixed2(users[t.user_id].balance),
                                           err |-> ErrNone] ]_vars

C39_Witness ==
    \E p \in Calls : \E t \in transactions :
        /\ t.transaction_id = req[p].transaction_id /\ t.user_id = req[p].user_id
        /\ t.state = StateWin /\ t.amount = 550 /\ t.status = StatusProcessed
        /\ AlreadyProcessed(p)
        /\ req[p].state = StateLost /\ req[p].amount = T1000
        /\ resp[p].balance = StringFixed2(SeedUsers[t.user_id].balance + 550)

\* The errors of a call that fails without a conflict on its transaction_id.
FailureErrs ==
    {ErrInsufficientBalance, ErrUserNotFound, errBeginTransaction, errGetTransaction,
     errGetBalance, errGetUserForUpdate, errInsertTransaction, errCommitTransaction,
     errGetTransactionAfterDuplicate, errGetBalanceAfterDuplicate}

\* The step is the one in which call p returns one of these errors.
FailsNow(p) == resp'[p] # resp[p] /\ resp'[p].err \in FailureErrs

\* C36, as stated: when a call fails with ErrInsufficientBalance,
\* ErrUserNotFound or a store error, no row carries its transaction_id.
C36_FailedCallKeyUnused ==
    [][ \A p \in Calls :
          FailsNow(p) => { t \in transactions' : t.transaction_id = req[p].transaction_id } = {}
      ]_vars

\* C36, amended: the step in which a call fails changes no users row and no
\* transactions row, and every row was inserted by a call that returned
\* success, so a failed call does not use up its transaction_id; a call
\* whose lookup finds no row with its transaction_id is processed as a new
\* event, whatever failed before, and when it succeeds the balance moves by
\* its amount once and one row carries the transaction_id.
C36_FailedCallInsertsNothing ==
    /\ [](\A t \in transactions :
            /\ Cardinality(RowsWithKey(t.transaction_id)) = 1
            /\ \E q \in Calls :
                  /\ Succeeded(q)
                  /\ req[q].transaction_id = t.transaction_id
                  /\ req[q].user_id = t.user_id)
    /\ [][ \A p \in Calls :
            /\ FailsNow(p) => users' = users /\ transactions' = transactions
            /\ (pc[p] = "getTransaction" /\ pc'[p] # pc[p]
                   /\ RowsWithKey(req[p].transaction_id) = {}
                   /\ resp'[p].err \notin {errBeginTransaction, errGetTransaction})
                  => pc'[p] = "getUserForUpdate" /\ resp'[p] = resp[p]
            /\ (resp'[p] # resp[p] /\ resp'[p].status = "success")
                  => /\ users'[req[p].user_id].balance =
                            AppliedBalance(users[req[p].user_id].balance,
                                           tx[p].state, tx[p].amount)
                     /\ RowsWithKey(req[p].transaction_id) = {}
                     /\ transactions' = transactions \cup {tx[p].inserted} ]_vars

C36_Witness ==
    \E p \in Calls : \E q \in Calls : \E t \in transactions :
        /\ req[p] = req[q]
        /\ Done(p) /\ resp[p].err = errCommitTransaction
        /\ Succeeded(q)
        /\ RowsWithKey(req[q].transaction_id) = {t}
        /\ resp[q].balance = StringFixed2(tx[p].newBalance)

\* C37: a run of the job whose selection finds no odd processed row can be
\* taken and has one outcome only: no unit is opened, no row and no account
\* is locked, nothing is written, the job is idle again and no error is
\* reported.
C37_EmptySelectionDoesNothing ==
    \A s \in Sweepers :
        (pc[s] = "idle" /\ ctx = "live" /\ OddProcessed = {})
            => /\ ENABLED SelectCandidates(s)
               /\ ~ ENABLED (/\ SelectCandidates(s)
                             /\ \/ unit' # unit
                                \/ storeVars' # storeVars
                                \/ batch' # batch
                                \/ pc' # pc
                                \/ report'[s].err # ErrNone)

C37_Witness ==
    \E s \in Sweepers :
        /\ pc[s] = "idle" /\ ctx = "live"
        /\ OddProcessed = {}
        /\ report[s].ran /\ report[s].cancelled > 0
        /\ \E t \in transactions : t.status = StatusCancelled
        /\ \E t \in transactions : t.status = StatusProcessed
        /\ unit[s] = NoUnit

\* C38, as stated: once the context is cancelled or stopChan is closed the
\* worker starts no new run of the job: an idle worker leaves no new report.
C38_NoRunAfterShutdown ==
    [][ \A s \in Sweepers :
          (pc[s] = "idle" /\ (ctx = "done" \/ stopChan = "closed"))
              => report'[s] = report[s]
      ]_vars

\* The reversal of a processed row would make its user's balance negative.
NotReversible(t) ==
    LessThanZero(ReversedBalance(users[t.user_id].balance, t.state, t.amount))

\* C35, as stated: with no calls, no store errors and no cancellation of the
\* context, repeated runs of the job reach a state in which the reversal of
\* every odd processed row would make the balance negative, also when more
\* than ten such rows have higher ids than a row that can be reversed.
C35_EveryReversibleRowReversed ==
    <>(\A t \in OddProcessed : NotReversible(t))

====
